---------------------------- MODULE Spec2Model ----------------------------
(***************************************************************************)
(* Traffic-control core of the API gateway: the per-service circuit        *)
(* breaker registry (middleware/circuit_breaker.rs), the sliding-window    *)
(* rate limiter (middleware/rate_limit.rs), the response cache             *)
(* (middleware/cache.rs), the event publisher (kafka/producer.rs) and the  *)
(* admission layer with the routes behind it (middleware/auth.rs,          *)
(* middleware/zero_trust.rs, routes/v1).                                   *)
(* Each component has its own specification over the shared clock `now`;   *)
(* the variables of the other components keep their initial values.        *)
(***************************************************************************)
EXTENDS Integers, Sequences, FiniteSets, TLC

VARIABLES
    now,        \* the clock reading (millis for the registry, seconds elsewhere)
    \* ---- circuit breaker registry
    cfg,        \* CircuitBreakerConfig the registry was built with
    breakers,   \* DashMap<String, BreakerState>: service -> BreakerState
    obs,        \* per-service observer of the calls made so far (history)
    touched,    \* the service of the last operation on the registry (history)
    calls,      \* the callers that go through allow_request and record the
                \* outcome: calls let through and not recorded yet, and
                \* whether the downstream service is failing
    thr,        \* per thread inside a registry method: the atomic operation
                \* it executes next, and its local values
    hist,       \* what the threads have done so far, by half-open period
                \* and by group of overlapping record calls (history)
    \* ---- rate limiter
    rlcfg,      \* RateLimitConfig
    redis,      \* the Redis store: key -> [zset: member -> score, expire_at]
    rlResp,     \* the response of the last request through the middleware
                \* (healthy: no store command has failed so far)
    rlLog,      \* per key, the clock values of the requests recorded (history)
    rlRejected, \* the <<key, clock>> of the recorded requests answered 429
                \* (history)
    \* ---- event publisher
    pcfg,       \* ProducerConfig
    cb,         \* the publisher's own CircuitBreaker (behind the RwLock)
    pub,        \* per publishing task: where it is in publish(), and what
                \* its current or last publish has done so far
    lock,       \* the RwLock around the CircuitBreaker: the task holding a
                \* guard while it waits for something else, if any
    opening,    \* the clock at which the publisher's breaker last went from
                \* Closed or HalfOpen to Open, 0 if it never did (history)
    health,     \* what the last is_healthy() returned, and the parity of the
                \* number of calls (history)
    \* ---- response cache
    ccfg,       \* CacheConfig
    entries,    \* DashMap<String, CacheEntry>: key -> CacheEntry
    hits,       \* AtomicU64
    misses,     \* AtomicU64
    setters,    \* per thread: the key of the set() it is in the middle of
    written,    \* per key, the entry the last completed set() stored, until
                \* the key is invalidated (history)
    gets,       \* the parity of the number of get() calls so far (history)
    swept,      \* the number of entries the last run of the sweep removed,
                \* and the parity of the number of runs (history)
    \* ---- admission layer and routes
    gwcfg,      \* AuthLayer.auth_bypass_enabled and the ZeroTrustLayer
    gw          \* the request on its way through the middleware stack, and
                \* what has been done for it so far

breakerVars == <<cfg, breakers, obs, touched, calls, thr, hist>>
\* The callers of the registry
callerVars == <<calls, thr, hist>>
rateVars == <<rlcfg, redis, rlResp, rlLog, rlRejected>>
pubVars == <<pcfg, cb, pub, lock, opening, health>>
cacheVars == <<ccfg, entries, hits, misses, setters, written, swept, gets>>
gwVars == <<gwcfg, gw>>

vars == <<now, cfg, breakers, obs, touched, calls, thr, hist, rlcfg, redis, rlResp, rlLog, rlRejected,
          pcfg, cb, pub, lock, opening, health,
          ccfg, entries, hits, misses, setters, written, swept, gets, gwcfg, gw>>

-----------------------------------------------------------------------------
(* Bounds of the model *)

MaxTime == 5
MaxCount == 4
MaxRequests == 4
MaxGets == 2
MaxExpired == 1

Services == {"auth"}

\* Configurations the registry is built with (CircuitBreakerConfig)
FailureThresholds == {1, 2}
OpenDurations == {1, 2}
HalfOpenSuccesses == {1, 2}

Min(a, b) == IF a < b THEN a ELSE b

\* Option<T>
None == <<>>
Some(x) == <<x>>

-----------------------------------------------------------------------------
(* The clock: SystemTime::now() / Instant::now().  It never reads 0. *)

Tick ==
    /\ now < MaxTime
    /\ now' = now + 1

-----------------------------------------------------------------------------
(* Rate limiter: Redis-backed sliding window (middleware/rate_limit.rs) *)

Clients == {"user:1"}

\* Request paths, as sequences of characters and whole segments
Paths == {<<"/", "search">>, <<"/", "docs">>}

WindowSecs == {1, 2, 3}
Limits == {1, 2}

\* u64::to_string(): the decimal digits, most significant first
RECURSIVE to_string(_)
to_string(n) ==
    IF n < 10 THEN <<n>> ELSE Append(to_string(n \div 10), n % 10)

\* path.replace('/', "_")
replace_slash(path) ==
    [i \in DOMAIN path |-> IF path[i] = "/" THEN "_" ELSE path[i]]

\* path.contains("/" ++ seg)
contains(path, seg) ==
    \E i \in 1 .. Len(path) - 1 : path[i] = "/" /\ path[i + 1] = seg

get_limit_for_path(path) ==
    IF contains(path, "search") THEN rlcfg.search_limit
    ELSE IF contains(path, "sources") THEN rlcfg.sources_limit
    ELSE IF contains(path, "sync") THEN rlcfg.sync_limit
    ELSE rlcfg.default_limit

rate_key(client_id, path) == <<"ratelimit", client_id, replace_slash(path)>>

\* The sorted set stored at a key: gone once the key's EXPIRE has run out
zset_at(store, key, t) ==
    IF key \in DOMAIN store /\ t < store[key].expire_at
    THEN store[key].zset ELSE <<>>

\* ZREMRANGEBYSCORE pruning one second too many (hi + 1 for hi)
zrembyscore_too_far(zs, lo, hi) ==
    LET keep == {m \in DOMAIN zs : ~(lo <= zs[m] /\ zs[m] <= hi + 1)}
    IN  [m \in keep |-> zs[m]]

\* ZREMRANGEBYSCORE key lo hi
zrembyscore(zs, lo, hi) ==
    LET keep == {m \in DOMAIN zs : ~(lo <= zs[m] /\ zs[m] <= hi)}
    IN  [m \in keep |-> zs[m]]

\* ZADD key score member: a member already in the set only gets the score
zadd(zs, member, score) ==
    [m \in DOMAIN zs \cup {member} |-> IF m = member THEN score ELSE zs[m]]

\* ZCOUNT key lo hi
zcount(zs, lo, hi) ==
    Cardinality({m \in DOMAIN zs : lo <= zs[m] /\ zs[m] <= hi})

\* The MULTI pipeline of check_rate_limit: prune, add, expire
pipeline(store, key, t) ==
    LET window_start == t - rlcfg.window_secs
        pruned == zrembyscore(zset_at(store, key, t), 0, window_start)
        added == zadd(pruned, to_string(t), t)
        entry == [zset |-> added, expire_at |-> t + rlcfg.window_secs]
    IN  [k \in DOMAIN store \cup {key} |-> IF k = key THEN entry ELSE store[k]]

\* check_rate_limit(): the store afterwards.  conn, pipe: whether the
\* connection and the pipeline succeed.
check_store(store, key, t, conn, pipe) ==
    IF conn /\ pipe THEN pipeline(store, key, t) ELSE store

\* check_rate_limit(): Ok(RateLimitInfo) or Err(()), on the store as the
\* pipeline left it.  cnt: whether ZCOUNT succeeds.
check_rate_limit(store, key, limit, t, conn, cnt) ==
    LET window_start == t - rlcfg.window_secs
        count == IF cnt THEN zcount(zset_at(store, key, t), window_start, t)
                 ELSE 0
    IN  IF ~conn
        THEN [ok |-> TRUE, limit |-> limit, remaining |-> limit,
              reset |-> t + rlcfg.window_secs]
        ELSE IF count > limit
        THEN [ok |-> FALSE]
        ELSE [ok |-> TRUE, limit |-> limit,
              remaining |-> IF limit > count THEN limit - count ELSE 0,
              reset |-> t + rlcfg.window_secs]

\* rate_limit_middleware running next for a rejected request as well
rate_limit_response_runs_next(res, limit) ==
    IF res.ok
    THEN [status |-> "next", forwarded |-> TRUE,
          headers |-> ("X-RateLimit-Limit" :> res.limit)
                      @@ ("X-RateLimit-Remaining" :> res.remaining)
                      @@ ("X-RateLimit-Reset" :> res.reset)]
    ELSE [status |-> "429", forwarded |-> TRUE,
          headers |-> ("X-RateLimit-Limit" :> limit)
                      @@ ("X-RateLimit-Remaining" :> 0)]

\* The response of rate_limit_middleware for a checked request
rate_limit_response(res, limit) ==
    IF res.ok
    THEN [status |-> "next", forwarded |-> TRUE,
          headers |-> ("X-RateLimit-Limit" :> res.limit)
                      @@ ("X-RateLimit-Remaining" :> res.remaining)
                      @@ ("X-RateLimit-Reset" :> res.reset)]
    ELSE [status |-> "429", forwarded |-> FALSE,
          headers |-> ("X-RateLimit-Limit" :> limit)
                      @@ ("X-RateLimit-Remaining" :> 0)]

LogSize == LET S == DOMAIN rlLog IN
    IF S = {} THEN 0
    ELSE LET RECURSIVE Sum(_)
             Sum(T) == IF T = {} THEN 0
                       ELSE LET k == CHOOSE k \in T : TRUE
                            IN  Len(rlLog[k]) + Sum(T \ {k})
         IN  Sum(S)

\* One request through rate_limit_middleware
RateLimitRequest(client_id, path, conn, pipe, cnt) ==
    LET limit == get_limit_for_path(path)
        key == rate_key(client_id, path)
        store1 == check_store(redis, key, now, conn, pipe)
        res == check_rate_limit(store1, key, limit, now, conn, cnt)
        old == IF key \in DOMAIN rlLog THEN rlLog[key] ELSE <<>>
    IN  /\ ~rlcfg.skip_rate_limiting
        /\ LogSize < MaxRequests
        /\ redis' = store1
        /\ rlResp' = rate_limit_response(res, limit)
                        @@ [key |-> key, at |-> now,
                            store_failed |-> ~conn \/ ~pipe \/ ~cnt,
                            healthy |-> /\ conn /\ pipe /\ cnt
                                        /\ (rlResp.status # "none"
                                                => rlResp.healthy)]
        /\ rlLog' = IF conn /\ pipe
                    THEN [k \in DOMAIN rlLog \cup {key} |->
                            IF k = key THEN Append(old, now) ELSE rlLog[k]]
                    ELSE rlLog
        /\ rlRejected' = IF conn /\ pipe /\ ~res.ok
                         THEN rlRejected \cup {<<key, now>>}
                         ELSE rlRejected
        /\ UNCHANGED <<now, rlcfg, breakerVars, pubVars, cacheVars, gwVars>>

\* With skip_rate_limiting the request goes straight to the next handler
RateLimitSkipped(client_id, path) ==
    /\ rlcfg.skip_rate_limiting
    /\ rlResp' = [status |-> "next", forwarded |-> TRUE, headers |-> <<>>,
                  key |-> rate_key(client_id, path), at |-> now,
                  store_failed |-> FALSE, healthy |-> FALSE]
    /\ UNCHANGED <<now, rlcfg, redis, rlLog, rlRejected, breakerVars, pubVars,
                   cacheVars, gwVars>>

RateTick == Tick /\ UNCHANGED <<breakerVars, rateVars, pubVars, cacheVars, gwVars>>

-----------------------------------------------------------------------------
(* Event publisher (kafka/producer.rs) *)

Publishers == {"p1", "p2"}

\* ProducerConfig values
RetryCounts == {0, 1, 2}
BackoffBases == {1, 100}

\* CircuitBreaker::new(5, Duration::from_secs(30)): the threshold, and the
\* recovery timeout in ticks of the model's clock
CbThreshold == 5
RecoveryTimeout == 2

RECURSIVE pow2(_)
pow2(n) == IF n = 0 THEN 1 ELSE 2 * pow2(n - 1)

CircuitBreakerNew ==
    [state |-> "Closed", failures |-> 0, threshold |-> CbThreshold,
     recovery_timeout |-> RecoveryTimeout, last_failure |-> 0]

\* record_success that closes the breaker but keeps the failure counter
cb_record_success_keeps_failures(b) == [b EXCEPT !.state = "Closed"]

\* CircuitBreaker::record_success
cb_record_success(b) == [b EXCEPT !.failures = 0, !.state = "Closed"]

\* record_failure opening one failure late (> for >=)
cb_record_failure_opens_late(b, t) ==
    LET b1 == [b EXCEPT !.failures = @ + 1, !.last_failure = t]
    IN  IF b1.failures > b1.threshold THEN [b1 EXCEPT !.state = "Open"] ELSE b1

\* CircuitBreaker::record_failure at clock t
cb_record_failure(b, t) ==
    LET b1 == [b EXCEPT !.failures = @ + 1, !.last_failure = t]
    IN  IF b1.failures >= b1.threshold THEN [b1 EXCEPT !.state = "Open"] ELSE b1

\* Whether an Open breaker's recovery timeout has run out (last.elapsed())
cb_recovered(b, t) ==
    b.last_failure # 0 /\ t - b.last_failure >= b.recovery_timeout

\* can_execute letting an Open breaker through before its timeout
can_execute_no_timeout(b, t) == TRUE

\* CircuitBreaker::can_execute: the value returned
can_execute(b, t) ==
    CASE b.state = "Closed" -> TRUE
      [] b.state = "Open" -> cb_recovered(b, t)
      [] b.state = "HalfOpen" -> TRUE

\* CircuitBreaker::can_execute: the breaker afterwards
can_execute_effect(b, t) ==
    IF b.state = "Open" /\ cb_recovered(b, t)
    THEN [b EXCEPT !.state = "HalfOpen"] ELSE b

\* is_healthy() answering from the elapsed recovery timeout too
is_healthy_after_timeout == cb.state # "Open" \/ cb_recovered(cb, now)

\* EventProducer::is_healthy
is_healthy == cb.state # "Open"

\* The guard of the breaker check kept for the rest of publish()
guard_kept_after_check(p, scope) == IF scope = "check" THEN Some(p) ELSE None

\* publish(): who holds a guard of the lock once the scope that took it is
\* left. The guard of the breaker check lives in a block of its own, the
\* guards of the Ok and Err arms are dropped when publish() returns.
guard_after(p, scope) == None

\* publish_with_retry: the backoff slept after failed attempt number attempt
backoff(attempt) == pcfg.retry_backoff_ms * pow2(attempt)

\* publish_with_retry sleeping after the final attempt too (<= for <)
sleeps_after_every(attempt) == attempt <= pcfg.retries

\* publish_with_retry: whether it sleeps after failed attempt number attempt
sleeps_after(attempt) == attempt < pcfg.retries

\* publish_with_retry: the error of a publish whose attempts all failed
exhausted_error == "Kafka"

TaskIdle ==
    [pc |-> "idle", attempt |-> 0, serialized |-> FALSE, admitted |-> FALSE,
     outcomes |-> <<>>, delays |-> <<>>, recorded |-> <<>>,
     result |-> "none"]

\* The for loop of publish_with_retry moves on after attempt number attempt
next_attempt(task) ==
    IF task.attempt + 1 <= pcfg.retries
    THEN [task EXCEPT !.attempt = @ + 1, !.pc = "send"]
    ELSE [task EXCEPT !.pc = "record_err"]

\* publish(): the breaker check under the write lock, then the key and the
\* serialization of the event (ser: whether serde_json::to_vec succeeds)
PublishStart(p, ser) ==
    LET ok == can_execute(cb, now)
        t0 == TaskIdle
    IN  /\ pub[p].pc = "idle"
        /\ lock = None
        /\ cb' = can_execute_effect(cb, now)
        /\ lock' = IF ok /\ ser THEN guard_after(p, "check") ELSE None
        /\ pub' = [pub EXCEPT ![p] =
                IF ~ok THEN [t0 EXCEPT !.result = "CircuitBreakerOpen"]
                ELSE IF ~ser
                THEN [t0 EXCEPT !.admitted = TRUE, !.serialized = TRUE,
                                !.result = "Serialization"]
                ELSE [t0 EXCEPT !.admitted = TRUE, !.serialized = TRUE,
                                !.pc = "send"]]
        /\ UNCHANGED <<now, pcfg, opening, health, breakerVars, rateVars, cacheVars,
                gwVars>>

\* publish_with_retry: one producer.send(), delivered or not
Send(p, delivered) ==
    LET task == [pub[p] EXCEPT !.outcomes = Append(@, delivered)]
    IN  /\ pub[p].pc = "send"
        /\ pub' = [pub EXCEPT ![p] =
                IF delivered THEN [task EXCEPT !.pc = "record_ok"]
                ELSE IF sleeps_after(task.attempt)
                THEN [task EXCEPT !.pc = "sleep",
                                  !.delays = Append(@, backoff(task.attempt))]
                ELSE next_attempt(task)]
        /\ UNCHANGED <<now, pcfg, cb, lock, opening, health, breakerVars, rateVars,
            cacheVars,
                gwVars>>

\* publish_with_retry: tokio::time::sleep(backoff) is over
Wake(p) ==
    /\ pub[p].pc = "sleep"
    /\ pub' = [pub EXCEPT ![p] = next_attempt(pub[p])]
    /\ UNCHANGED <<now, pcfg, cb, lock, opening, health, breakerVars, rateVars,
            cacheVars,
            gwVars>>

\* publish(): Ok(_) => record_success under the write lock, return Ok(key)
RecordOk(p) ==
    /\ pub[p].pc = "record_ok"
    /\ lock = None
    /\ cb' = cb_record_success(cb)
    /\ lock' = guard_after(p, "ok")
    /\ UNCHANGED opening
    /\ pub' = [pub EXCEPT ![p].pc = "idle", ![p].result = "Ok",
                          ![p].recorded = Append(@, "success")]
    /\ UNCHANGED <<now, pcfg, health, breakerVars, rateVars, cacheVars, gwVars>>

\* publish(): Err(e) => record_failure under the write lock, return Err(e)
RecordErr(p) ==
    /\ pub[p].pc = "record_err"
    /\ lock = None
    /\ cb' = cb_record_failure(cb, now)
    /\ lock' = guard_after(p, "err")
    /\ opening' = IF cb.state # "Open" /\ cb'.state = "Open" THEN now ELSE opening
    /\ pub' = [pub EXCEPT ![p].pc = "idle", ![p].result = exhausted_error,
                          ![p].recorded = Append(@, "failure")]
    /\ UNCHANGED <<now, pcfg, health, breakerVars, rateVars, cacheVars, gwVars>>

\* is_healthy(): the state read under the read lock
IsHealthy ==
    /\ lock = None
    /\ health' = [calls |-> 1 - health.calls, result |-> is_healthy]
    /\ UNCHANGED <<now, pcfg, cb, pub, lock, opening, breakerVars, rateVars,
            cacheVars,
            gwVars>>

PubTick == Tick /\ UNCHANGED <<breakerVars, rateVars, pubVars, cacheVars, gwVars>>

-----------------------------------------------------------------------------
(* Response cache (middleware/cache.rs) *)

\* Keys, as sequences of characters
CacheKeys == {<<"k", "1">>, <<"k", "2">>}
Prefixes == {<<>>, <<"k">>, <<"k", "1">>, <<"x">>}
Payloads == {"a", "b"}
Ttls == {1, 2}
MaxEntries == {1, 2}
Threads == {"t1", "t2"}

\* set() evicts max_entries / EvictDivisor entries when the store is full
EvictDivisor == 10

Miss == [hit |-> FALSE]

\* get(): whether the entry counts as expired at clock t
get_expired(entry, t) == entry.expires_at < t

\* get(): Some((data, status, content_type)) or None
get_result(map, key, t) ==
    IF ~ccfg.enabled \/ key \notin DOMAIN map \/ get_expired(map[key], t)
    THEN Miss
    ELSE [hit |-> TRUE, data |-> map[key].data, status |-> map[key].status,
          content_type |-> map[key].content_type]

remove(map, keys) == [k \in DOMAIN map \ keys |-> map[k]]

insert(map, key, entry) ==
    [k \in DOMAIN map \cup {key} |-> IF k = key THEN entry ELSE map[k]]

\* The orders in which entries.iter() may visit the keys of the map
IterOrders(map) ==
    LET n == Cardinality(DOMAIN map)
    IN  {o \in [1 .. n -> DOMAIN map] : \A i, j \in 1 .. n : o[i] = o[j] => i = j}

\* set(): the eviction loop over the entries in iteration order
RECURSIVE evict_scan(_, _, _, _, _, _)
evict_scan(map, order, i, picked, to_remove, t) ==
    IF i > Len(order) THEN picked
    ELSE LET k == order[i]
             picked1 == IF map[k].expires_at < t \/ Cardinality(picked) < to_remove
                        THEN picked \cup {k} ELSE picked
         IN  IF Cardinality(picked1) >= to_remove THEN picked1
             ELSE evict_scan(map, order, i + 1, picked1, to_remove, t)

\* set(): "Evict if at capacity"
evict(map, order, t) ==
    IF Cardinality(DOMAIN map) >= ccfg.max_entries
    THEN remove(map, evict_scan(map, order, 1, {},
                                ccfg.max_entries \div EvictDivisor, t))
    ELSE map

\* get(key)
Get(key) ==
    /\ hits + misses < MaxGets
    /\ IF ~ccfg.enabled \/ key \notin DOMAIN entries
       THEN UNCHANGED <<entries, hits, misses>>
       ELSE IF get_expired(entries[key], now)
       THEN /\ entries' = remove(entries, {key})
            /\ misses' = misses + 1
            /\ UNCHANGED hits
       ELSE /\ hits' = hits + 1
            /\ UNCHANGED <<entries, misses>>
    /\ gets' = 1 - gets
    /\ UNCHANGED <<now, ccfg, setters, written, swept, breakerVars, rateVars,
            pubVars, gwVars>>

\* The first n keys that entries.iter() may visit: the eviction loop breaks
\* as soon as it holds to_remove keys, and it takes every key it visits
\* until then, so it reads no more than the first max(1, to_remove) keys
IterPrefixes(map, n) ==
    {o \in [1 .. Min(n, Cardinality(DOMAIN map)) -> DOMAIN map] :
        \A i, j \in DOMAIN o : o[i] = o[j] => i = j}

\* set(key, data, status, content_type, ttl), first half: the capacity check
\* and the eviction, the iterator visiting the keys in the given order
SetEvict(th, key, order) ==
    /\ ccfg.enabled
    /\ setters[th] = None
    /\ entries' = evict(entries, order, now)
    /\ setters' = [setters EXCEPT ![th] = Some(key)]
    /\ UNCHANGED <<now, ccfg, hits, misses, written, swept, gets, breakerVars,
            rateVars, pubVars, gwVars>>

\* set(), second half: entries.insert with expires_at = now_epoch() + ttl.
\* The other arguments of the call are drawn here, where they are first used.
SetInsert(th, data, ttl) ==
    /\ setters[th] # None
    /\ LET key == setters[th][1]
           entry == [data |-> data, status |-> 200,
                     content_type |-> "application/json",
                     expires_at |-> now + ttl]
       IN  /\ entries' = insert(entries, key, entry)
           /\ written' = insert(written, key, entry)
    /\ setters' = [setters EXCEPT ![th] = None]
    /\ UNCHANGED <<now, ccfg, hits, misses, swept, gets, breakerVars, rateVars,
            pubVars, gwVars>>

\* set() on a disabled cache returns at once
SetDisabled(th) ==
    /\ ~ccfg.enabled
    /\ setters[th] = None
    /\ UNCHANGED vars

sweep_retains_at_expiry(entry, t) == entry.expires_at >= t

\* The closure of the periodic cleanup task: |_, entry| entry.expires_at > now
sweep_retains(entry, t) == entry.expires_at > t

\* One run of the periodic cleanup task: entries.retain(..)
Sweep ==
    LET kept == {k \in DOMAIN entries : sweep_retains(entries[k], now)}
    IN  /\ entries' = [k \in kept |-> entries[k]]
        /\ swept' = [runs |-> 1 - swept.runs, removed |-> Cardinality(DOMAIN entries \ kept)]
        /\ UNCHANGED <<now, ccfg, hits, misses, setters, written, gets,
                breakerVars, rateVars, pubVars, gwVars>>

\* str::starts_with
starts_with(k, prefix) ==
    Len(prefix) <= Len(k) /\ \A i \in DOMAIN prefix : k[i] = prefix[i]

\* invalidate_prefix(prefix): entries.retain(|k, _| !k.starts_with(prefix))
InvalidatePrefix(prefix) ==
    /\ entries' = remove(entries, {k \in DOMAIN entries : starts_with(k, prefix)})
    /\ written' = remove(written, {k \in DOMAIN written : starts_with(k, prefix)})
    /\ UNCHANGED <<now, ccfg, hits, misses, setters, swept, gets, breakerVars,
            rateVars, pubVars, gwVars>>

\* Option::unwrap_or
unwrap_or(opt, default) == IF opt = None THEN default ELSE opt[1]

\* build_key(method, path, query, user_id):
\* format!("cache:{}:{}:{}:{}", method, path, q, u)
build_key(method, path, query, user_id) ==
    LET q == unwrap_or(query, <<>>)
        u == unwrap_or(user_id, <<"anon">>)
    IN  <<"cache", ":">> \o method \o <<":">> \o path \o <<":">> \o q
            \o <<":">> \o u

\* Requests whose responses are cached: method, path, query and the caller's
\* id, as sequences of characters and of whole words
CachedRequests ==
    [method : {<<"GET">>},
     path : {<<"/a">>, <<"/a", ":", "b">>},
     query : {None, Some(<<"b", ":">>)},
     user_id : {None, Some(<<"u1">>), Some(<<"anon">>)}]

request_key(r) == build_key(r.method, r.path, r.query, r.user_id)

\* stats()
stats == <<hits, misses, Cardinality(DOMAIN entries)>>

CacheTick == Tick /\ UNCHANGED <<breakerVars, rateVars, pubVars, cacheVars, gwVars>>

-----------------------------------------------------------------------------
(* Circuit breaker registry *)

BreakerStateNew ==
    [consecutive_failures |-> 0, consecutive_successes |-> 0,
     opened_at |-> 0, half_open_probes |-> 0]

\* get_or_create() building the whole map anew when it adds an entry
get_or_create_anew(map, service) ==
    IF service \in DOMAIN map THEN map
    ELSE [s \in DOMAIN map \cup {service} |-> BreakerStateNew]

get_or_create(map, service) ==
    IF service \in DOMAIN map THEN map ELSE map @@ (service :> BreakerStateNew)

\* state(): Closed while opened_at = 0, otherwise by the time since opened_at
state(br, t) ==
    IF br.opened_at = 0 THEN "Closed"
    ELSE IF t - br.opened_at >= cfg.open_duration THEN "HalfOpen"
    ELSE "Open"

\* allow_request() with an off-by-one probe bound (<= for <)
allow_result_off_by_one(br, t) ==
    CASE state(br, t) = "Closed" -> TRUE
      [] state(br, t) = "Open" -> FALSE
      [] state(br, t) = "HalfOpen" ->
            br.half_open_probes <= cfg.half_open_successes + 1

\* allow_request(): the value returned
allow_result(br, t) ==
    CASE state(br, t) = "Closed" -> TRUE
      [] state(br, t) = "Open" -> FALSE
      [] state(br, t) = "HalfOpen" ->
            br.half_open_probes < cfg.half_open_successes + 1

\* allow_request(): the breaker afterwards (fetch_add on the probe counter)
allow_effect(br, t) ==
    IF state(br, t) = "HalfOpen"
    THEN [br EXCEPT !.half_open_probes = @ + 1]
    ELSE br

\* record_failure that leaves consecutive_successes as it is
record_failure_keeps_successes(br, t) ==
    LET failures == br.consecutive_failures + 1
        b1 == [br EXCEPT !.consecutive_failures = failures]
    IN  IF failures >= cfg.failure_threshold
        THEN [b1 EXCEPT !.opened_at = t, !.half_open_probes = 0]
        ELSE b1

record_success(br) ==
    LET successes == br.consecutive_successes + 1
        b1 == [br EXCEPT !.consecutive_failures = 0,
                         !.consecutive_successes = successes]
    IN  IF b1.opened_at > 0 /\ successes >= cfg.half_open_successes
        THEN [b1 EXCEPT !.opened_at = 0,
                        !.consecutive_successes = 0,
                        !.half_open_probes = 0]
        ELSE b1

record_failure(br, t) ==
    LET failures == br.consecutive_failures + 1
        b1 == [br EXCEPT !.consecutive_successes = 0,
                         !.consecutive_failures = failures]
    IN  IF failures >= cfg.failure_threshold
        THEN [b1 EXCEPT !.opened_at = t, !.half_open_probes = 0]
        ELSE b1

metrics(br, t) ==
    <<state(br, t), br.consecutive_failures, br.consecutive_successes>>

\* What allow_request(service) would return if it were called now
AllowNow(s) == allow_result(get_or_create(breakers, s)[s], now)

StateNow(s) == state(get_or_create(breakers, s)[s], now)

(* The observer: what has been recorded for a service, kept apart from the *)
(* breaker's own counters.                                                 *)
(*   failStreak  failures recorded since the last recorded success         *)
(*   tripAt      clock of the last failure that made failStreak = threshold *)
(*   hoSucc      successes recorded while HalfOpen since the last failure  *)
(*   granted     allow_request calls made while HalfOpen that returned     *)
(*               true, in the current period (since the last opening,      *)
(*               re-opening or closing)                                    *)
(*   denied      whether such a call returned false in the current period  *)
(*   grantedO    as granted, since the last opening from Closed or closing *)
(*               (a re-opening does not reset it)                          *)
ObsNew ==
    [failStreak |-> 0, tripAt |-> 0, hoSucc |-> 0,
     granted |-> 0, denied |-> FALSE, grantedO |-> 0]

\* A thread outside the registry's methods
ThreadIdle == [pc |-> "idle", successes |-> 0, stale |-> 0]

ThreadsIdle == [th \in {"t1", "t2"} |-> ThreadIdle]

(* The history of the threads' calls.                                      *)
(*   cur     calls that read HalfOpen in the current period (since the     *)
(*           last store to opened_at) and returned true                    *)
(*   prev    the same for the period before the current one                *)
(*           (a call that returns after the period has ended counts in the *)
(*           period it read HalfOpen in)                                   *)
(*   base    the breaker when the current group of overlapping record      *)
(*           calls began, ops the call each thread made in the group       *)
(*   clean   the group is one record call per thread at most, at one clock *)
(*           reading, with no probe counted meanwhile                      *)
HistNew ==
    [cur |-> 0, prev |-> 0,
     base |-> BreakerStateNew, ops |-> [th \in {"t1", "t2"} |-> "none"],
     clean |-> FALSE]

\* No call is in flight and the downstream service answers
CallsNone == [inflight |-> 0, faulty |-> FALSE]

ObsPeriod(o, before, after) ==
    LET o1 == IF after.opened_at # before.opened_at
              THEN [o EXCEPT !.granted = 0, !.denied = FALSE] ELSE o
    IN  IF (before.opened_at = 0) # (after.opened_at = 0)
        THEN [o1 EXCEPT !.grantedO = 0] ELSE o1

StateQuery(s) ==
    /\ s \notin DOMAIN breakers
    /\ breakers' = get_or_create(breakers, s)
    /\ touched' = Some(s)
    /\ UNCHANGED <<now, cfg, obs, rateVars, pubVars, cacheVars, gwVars>>

AllowRequest(s) ==
    LET m == get_or_create(breakers, s)
        pre == state(m[s], now)
        ret == allow_result(m[s], now)
    IN  /\ m[s].half_open_probes < MaxCount
        /\ breakers' = [m EXCEPT ![s] = allow_effect(m[s], now)]
        /\ obs' = IF pre = "HalfOpen"
                  THEN [obs EXCEPT ![s].granted = @ + (IF ret THEN 1 ELSE 0),
                                   ![s].denied = @ \/ ~ret,
                                   ![s].grantedO = @ + (IF ret THEN 1 ELSE 0)]
                  ELSE obs
        /\ touched' = Some(s)
        /\ UNCHANGED <<now, cfg, rateVars, pubVars, cacheVars, gwVars>>

RecordSuccess(s) ==
    LET m == get_or_create(breakers, s)
        pre == state(m[s], now)
        after == record_success(m[s])
        o1 == [obs[s] EXCEPT !.failStreak = 0,
                             !.hoSucc = IF pre = "HalfOpen" THEN @ + 1 ELSE @]
    IN  /\ m[s].consecutive_successes < MaxCount
        /\ breakers' = [m EXCEPT ![s] = after]
        /\ obs' = [obs EXCEPT ![s] = ObsPeriod(o1, m[s], after)]
        /\ touched' = Some(s)
        /\ UNCHANGED <<now, cfg, rateVars, pubVars, cacheVars, gwVars>>

RecordFailure(s) ==
    LET m == get_or_create(breakers, s)
        pre == state(m[s], now)
        after == record_failure(m[s], now)
        streak == obs[s].failStreak + 1
        o1 == [obs[s] EXCEPT !.failStreak = streak,
                             !.hoSucc = 0,
                             !.tripAt = IF streak = cfg.failure_threshold
                                        THEN now ELSE @]
    IN  /\ m[s].consecutive_failures < MaxCount
        /\ breakers' = [m EXCEPT ![s] = after]
        /\ obs' = [obs EXCEPT ![s] = ObsPeriod(o1, m[s], after)]
        /\ touched' = Some(s)
        /\ UNCHANGED <<now, cfg, rateVars, pubVars, cacheVars, gwVars>>

Metrics(s) ==
    /\ s \notin DOMAIN breakers
    /\ breakers' = get_or_create(breakers, s)
    /\ touched' = Some(s)
    /\ UNCHANGED <<now, cfg, obs, rateVars, pubVars, cacheVars, gwVars>>

BreakerTick == Tick /\ UNCHANGED <<breakerVars, rateVars, pubVars, cacheVars, gwVars>>

-----------------------------------------------------------------------------
(* Admission layer and routes: zero_trust_middleware around the router,    *)
(* auth_middleware around the protected routes, the route handlers         *)
(* (main.rs, routes/v1/mod.rs, middleware/auth.rs, zero_trust.rs)          *)

\* Option<T>

\* The server's clock reads Epoch + now seconds since the UNIX epoch
Epoch == 1000
now_secs(t) == Epoch + t

\* The literal the timestamp drift is compared with
StaleDrift == 300

\* ZeroTrustLayer.max_request_age_secs
MaxRequestAges == {300, 600}

DigitChars == <<"0", "1", "2", "3", "4", "5", "6", "7", "8", "9">>

\* u64::to_string() as text
chars(n) == LET d == to_string(n) IN [i \in DOMAIN d |-> DigitChars[d[i] + 1]]

is_digit(c) == \E d \in 0 .. 9 : DigitChars[d + 1] = c
digit_of(c) == CHOOSE d \in 0 .. 9 : DigitChars[d + 1] = c

RECURSIVE parse_digits(_)
parse_digits(str) ==
    IF str = <<>> THEN 0
    ELSE 10 * parse_digits(SubSeq(str, 1, Len(str) - 1)) + digit_of(str[Len(str)])

\* str::parse::<u64>(): Ok(n) as Some(n), Err(_) as None
parse_u64(str) ==
    IF str # <<>> /\ \A i \in DOMAIN str : is_digit(str[i])
    THEN Some(parse_digits(str)) ELSE None

\* Request paths, as sequences of characters and whole segments
LivePath == <<"/", "health", "/", "live">>
MetricsPath == <<"/", "metrics">>
SourcesPath == <<"/", "v1", "/", "sources">>
GwPaths == {LivePath, MetricsPath, SourcesPath}

\* Header values a request may carry (None: the header is absent)
CorrelationIds == {None, Some(<<"c1">>)}
RequestIds == {None, Some(<<"r1">>)}
Timestamps == {None, Some(<<"x">>), Some(chars(Epoch + 101)),
               Some(chars(Epoch + 303)), Some(chars(Epoch + 401)),
               Some(chars(Epoch - 299))}
Authorizations == {None, Some(<<"Bearer ", "t-good">>), Some(<<"Bearer ", "t-bad">>),
                   Some(<<"Basic ", "dXNlcg==">>)}
ApiKeys == {None, Some("k-good"), Some("k-bad")}

\* The service list_sources calls
DataConnector == "data-connector"

\* demo_user()
demo_user ==
    [id |-> "demo-user-001", email |-> <<"demo@confuse.dev">>,
     name |-> Some("Demo User"), picture |-> None, roles |-> {"user"}]

\* AuthClient::verify_token: what the authentication service answers
verify_token(token) ==
    IF token = "t-good"
    THEN [ok |-> TRUE,
          user |-> [id |-> "u1", email |-> <<"u1@example.com">>,
                    name |-> Some("User One"), picture |-> None,
                    roles |-> {"user", "admin"}]]
    ELSE [ok |-> FALSE, err |-> "Unauthorized"]

\* AuthClient::validate_api_key: what the authentication service answers
validate_api_key(key) ==
    IF key = "k-good"
    THEN [ok |-> TRUE,
          info |-> [id |-> "key-7", user_id |-> "u2", name |-> "ci key",
                    scopes |-> {"sources:read"}]]
    ELSE [ok |-> FALSE, err |-> "Unauthorized"]

\* The User auth_middleware builds from an ApiKeyInfo
api_key_user(info) ==
    [id |-> info.user_id, email |-> <<"api-key-", info.id, "@confuse.dev">>,
     name |-> Some(info.name), picture |-> None, roles |-> info.scopes]

\* str::strip_prefix("Bearer ")
strip_prefix_bearer(auth_value) ==
    IF auth_value # <<>> /\ auth_value[1] = "Bearer "
    THEN Some(Tail(auth_value)[1]) ELSE None

\* AppError::into_response: status and code
into_response(err) ==
    CASE err = "Unauthorized" -> [status |-> 401, code |-> "UNAUTHORIZED"]
      [] err = "ServiceUnavailable" ->
            [status |-> 503, code |-> "SERVICE_UNAVAILABLE"]
      [] OTHER -> [status |-> 500, code |-> "INTERNAL_ERROR"]

\* auth_middleware that goes on to the headers with the bypass flag set
auth_middleware_ignores_bypass(bypass, auth_header, api_key) ==
    IF auth_header # None
    THEN LET token == strip_prefix_bearer(auth_header[1])
         IN  IF token # None
             THEN LET r == verify_token(token[1])
                  IN  IF r.ok
                      THEN [next |-> TRUE, user |-> Some(r.user), err |-> "none",
                            calls |-> <<<<"verify_token", token[1]>>>>]
                      ELSE [next |-> FALSE, user |-> None, err |-> r.err,
                            calls |-> <<<<"verify_token", token[1]>>>>]
             ELSE [next |-> FALSE, user |-> None, err |-> "Unauthorized",
                   calls |-> <<>>]
    ELSE IF api_key # None
    THEN LET r == validate_api_key(api_key[1])
         IN  IF r.ok
             THEN [next |-> TRUE, user |-> Some(api_key_user(r.info)),
                   err |-> "none",
                   calls |-> <<<<"validate_api_key", api_key[1]>>>>]
             ELSE [next |-> FALSE, user |-> None, err |-> r.err,
                   calls |-> <<<<"validate_api_key", api_key[1]>>>>]
    ELSE [next |-> FALSE, user |-> None, err |-> "Unauthorized", calls |-> <<>>]

\* auth_middleware: whether next runs, the user attached to the request,
\* the error returned and the calls made to the authentication service
auth_middleware(bypass, auth_header, api_key) ==
    IF bypass
    THEN [next |-> TRUE, user |-> Some(demo_user), err |-> "none",
          calls |-> <<>>]
    ELSE IF auth_header # None
    THEN LET token == strip_prefix_bearer(auth_header[1])
         IN  IF token # None
             THEN LET r == verify_token(token[1])
                  IN  IF r.ok
                      THEN [next |-> TRUE, user |-> Some(r.user), err |-> "none",
                            calls |-> <<<<"verify_token", token[1]>>>>]
                      ELSE [next |-> FALSE, user |-> None, err |-> r.err,
                            calls |-> <<<<"verify_token", token[1]>>>>]
             ELSE [next |-> FALSE, user |-> None, err |-> "Unauthorized",
                   calls |-> <<>>]
    ELSE IF api_key # None
    THEN LET r == validate_api_key(api_key[1])
         IN  IF r.ok
             THEN [next |-> TRUE, user |-> Some(api_key_user(r.info)),
                   err |-> "none",
                   calls |-> <<<<"validate_api_key", api_key[1]>>>>]
             ELSE [next |-> FALSE, user |-> None, err |-> r.err,
                   calls |-> <<<<"validate_api_key", api_key[1]>>>>]
    ELSE [next |-> FALSE, user |-> None, err |-> "Unauthorized", calls |-> <<>>]

\* optional_auth_middleware: it always runs next
optional_auth_middleware(bypass, auth_header) ==
    IF bypass
    THEN [next |-> TRUE, user |-> Some(demo_user), err |-> "none",
          calls |-> <<>>]
    ELSE LET token == IF auth_header # None
                      THEN strip_prefix_bearer(auth_header[1]) ELSE None
         IN  IF token # None
             THEN LET r == verify_token(token[1])
                  IN  [next |-> TRUE,
                       user |-> IF r.ok THEN Some(r.user) ELSE None,
                       err |-> "none",
                       calls |-> <<<<"verify_token", token[1]>>>>]
             ELSE [next |-> TRUE, user |-> None, err |-> "none",
                   calls |-> <<>>]

\* zero_trust_middleware: "Skip health/readiness endpoints"
zt_skips(path) ==
    \/ starts_with(path, <<"/", "health">>)
    \/ path = <<"/", "status">>
    \/ path = <<"/", "metrics">>

\* zero_trust_middleware: the correlation id of the request, generated when
\* neither X-Correlation-Id nor X-Request-Id is there
correlation_id(corr, reqid, t) ==
    IF corr # None THEN corr[1]
    ELSE IF reqid # None THEN reqid[1]
    ELSE <<"zt-", t>>

\* zero_trust_middleware: the absolute drift between server time and ts
drift(secs, ts) == IF secs > ts THEN secs - ts ELSE ts - secs

\* zero_trust_middleware: whether the request is rejected as stale
stale(ts_header, t) ==
    /\ ts_header # None
    /\ parse_u64(ts_header[1]) # None
    /\ drift(now_secs(t), parse_u64(ts_header[1])[1]) > StaleDrift

\* The router: the routes under /v1 are behind auth_middleware
protected(path) == starts_with(path, <<"/", "v1", "/">>)

NoResponse == [status |-> 0, code |-> "none", headers |-> <<>>]

GwIdle ==
    [pc |-> "idle", mw |-> "none", path |-> <<>>,
     corr |-> None, reqid |-> None, ts |-> None, authz |-> None,
     api_key |-> None,
     zt |-> "none", correlation_id |-> <<>>, at |-> 0,
     auth |-> "none", user |-> None, auth_calls |-> <<>>,
     handler |-> "none", downstream |-> <<>>, resp |-> NoResponse]

\* A request arrives at zero_trust_middleware, which runs down to next.run()
ZeroTrustEnter(path, corr, reqid, ts) ==
    LET r0 == [GwIdle EXCEPT !.mw = "stack", !.path = path, !.corr = corr,
                             !.reqid = reqid, !.ts = ts, !.at = now]
        inner == IF protected(path) THEN "auth" ELSE "handler"
    IN  /\ gw.pc \in {"idle", "done"}
        /\ gw' = IF zt_skips(path)
                 THEN [r0 EXCEPT !.zt = "skipped", !.pc = inner]
                 ELSE IF stale(ts, now)
                 THEN [r0 EXCEPT !.zt = "rejected", !.pc = "done",
                                 !.correlation_id = correlation_id(corr, reqid, now),
                                 !.resp = [status |-> 400, code |-> "STALE_REQUEST",
                                           headers |-> <<>>]]
                 ELSE [r0 EXCEPT !.zt = "passed", !.pc = inner,
                                 !.correlation_id = correlation_id(corr, reqid, now)]
        /\ UNCHANGED <<now, gwcfg, breakerVars, rateVars, pubVars, cacheVars>>

\* auth_middleware on a request to a protected route
AuthMiddleware(auth_header, api_key) ==
    LET r == auth_middleware(gwcfg.auth_bypass_enabled, auth_header, api_key)
        g1 == [gw EXCEPT !.authz = auth_header, !.api_key = api_key,
                         !.user = r.user, !.auth_calls = r.calls]
    IN  /\ gw.pc = "auth"
        /\ gw' = IF r.next
                 THEN [g1 EXCEPT !.auth = "next", !.pc = "handler"]
                 ELSE [g1 EXCEPT !.auth = "err",
                                 !.resp = into_response(r.err)
                                            @@ [headers |-> <<>>],
                                 !.pc = IF gw.zt = "skipped" THEN "done"
                                        ELSE "zt_exit"]
        /\ UNCHANGED <<now, gwcfg, breakerVars, rateVars, pubVars, cacheVars>>

\* The route handler: list_sources calls the data connector (svc_ok: whether
\* it answers 2xx, a 5xx otherwise); liveness and metrics call nothing
RouteHandler(svc_ok) ==
    LET g1 == IF gw.path = SourcesPath
              THEN [gw EXCEPT !.handler = "list_sources",
                              !.downstream = Append(@, <<DataConnector,
                                    "list_sources", gw.user[1].id>>),
                              !.resp = IF svc_ok
                                       THEN [status |-> 200, code |-> "none",
                                             headers |-> <<>>]
                                       ELSE into_response("ServiceUnavailable")
                                                @@ [headers |-> <<>>]]
              ELSE [gw EXCEPT !.handler = IF gw.path = LivePath THEN "liveness"
                                          ELSE "metrics",
                              !.resp = [status |-> 200, code |-> "none",
                                        headers |-> <<>>]]
    IN  /\ gw.pc = "handler"
        /\ gw.path = SourcesPath \/ svc_ok
        /\ gw' = [g1 EXCEPT !.pc = IF gw.zt = "skipped" THEN "done"
                                   ELSE "zt_exit"]
        /\ UNCHANGED <<now, gwcfg, breakerVars, rateVars, pubVars, cacheVars>>

\* zero_trust_middleware after next.run(): the headers added to the response
ZeroTrustExit ==
    /\ gw.pc = "zt_exit"
    /\ gw' = [gw EXCEPT !.pc = "done",
                        !.resp.headers = ("X-Correlation-Id" :> gw.correlation_id)
                                         @@ ("X-Zero-Trust" :> <<"enforced">>)
                                         @@ @]
    /\ UNCHANGED <<now, gwcfg, breakerVars, rateVars, pubVars, cacheVars>>

\* optional_auth_middleware on a request, up to its next.run(). The request
\* carries its X-API-Key header, which the middleware does not read.
OptionalAuthMiddleware(auth_header, api_key) ==
    LET r == optional_auth_middleware(gwcfg.auth_bypass_enabled, auth_header)
    IN  /\ gw.pc \in {"idle", "done"}
        /\ gw' = [GwIdle EXCEPT !.mw = "optional_auth", !.pc = "done",
                                !.at = now, !.authz = auth_header,
                                !.api_key = api_key,
                                !.auth = "next", !.user = r.user,
                                !.auth_calls = r.calls, !.handler = "next"]
        /\ UNCHANGED <<now, gwcfg, breakerVars, rateVars, pubVars, cacheVars>>

GwTick == Tick /\ UNCHANGED <<breakerVars, rateVars, pubVars, cacheVars, gwVars>>

-----------------------------------------------------------------------------
(* Specifications, one per component *)

\* The registry as constructed, with the default configuration
IdleBreaker ==
    /\ cfg = [failure_threshold |-> 5, open_duration |-> 30000,
              half_open_successes |-> 2]
    /\ breakers = <<>>
    /\ obs = [s \in Services |-> ObsNew]
    /\ touched = None
    /\ calls = CallsNone
    /\ thr = ThreadsIdle
    /\ hist = HistNew

IdleRate ==
    /\ rlcfg = [default_limit |-> 100, search_limit |-> 30,
                sources_limit |-> 60, sync_limit |-> 10,
                window_secs |-> 60, skip_rate_limiting |-> FALSE]
    /\ redis = <<>>
    /\ rlResp = [status |-> "none"]
    /\ rlLog = <<>>
    /\ rlRejected = {}

IdlePub ==
    /\ pcfg = [retries |-> 5, retry_backoff_ms |-> 100]
    /\ cb = CircuitBreakerNew
    /\ pub = [p \in Publishers |-> TaskIdle]
    /\ lock = None
    /\ opening = 0
    /\ health = [calls |-> 0, result |-> TRUE]

IdleCache ==
    /\ ccfg = [max_entries |-> 10000, enabled |-> TRUE]
    /\ entries = <<>>
    /\ hits = 0
    /\ misses = 0
    /\ setters = [th \in Threads |-> None]
    /\ written = <<>>
    /\ swept = [runs |-> 0, removed |-> 0]
    /\ gets = 0

\* The admission layer as main.rs builds it, no request received yet
IdleGw ==
    /\ gwcfg = [auth_bypass_enabled |-> FALSE, max_request_age_secs |-> 300,
                enforce_timestamps |-> TRUE]
    /\ gw = GwIdle

InitBreaker ==
    /\ now = 1
    /\ cfg \in [failure_threshold : FailureThresholds,
                open_duration : OpenDurations,
                half_open_successes : HalfOpenSuccesses]
    /\ breakers = <<>>
    /\ obs = [s \in Services |-> ObsNew]
    /\ touched = None
    /\ calls = CallsNone
    /\ thr = ThreadsIdle
    /\ hist = HistNew
    /\ IdleRate
    /\ IdlePub
    /\ IdleCache
    /\ IdleGw

NextBreaker ==
    \/ BreakerTick
    \/ \E s \in Services : StateQuery(s) /\ UNCHANGED callerVars
    \/ \E s \in Services : AllowRequest(s) /\ UNCHANGED callerVars
    \/ \E s \in Services : RecordSuccess(s) /\ UNCHANGED callerVars
    \/ \E s \in Services : RecordFailure(s) /\ UNCHANGED callerVars
    \/ \E s \in Services : Metrics(s) /\ UNCHANGED callerVars

SpecBreaker == InitBreaker /\ [][NextBreaker]_vars

InitRate ==
    /\ now = 2
    /\ rlcfg \in [default_limit : Limits, search_limit : Limits,
                  sources_limit : {2}, sync_limit : {1},
                  window_secs : WindowSecs, skip_rate_limiting : BOOLEAN]
    /\ redis = <<>>
    /\ rlResp = [status |-> "none"]
    /\ rlLog = <<>>
    /\ rlRejected = {}
    /\ IdleBreaker
    /\ IdlePub
    /\ IdleCache
    /\ IdleGw

NextRate ==
    \/ RateTick
    \/ \E c \in Clients, p \in Paths, conn, pipe, cnt \in BOOLEAN :
            RateLimitRequest(c, p, conn, pipe, cnt)
    \/ \E c \in Clients, p \in Paths : RateLimitSkipped(c, p)

SpecRate == InitRate /\ [][NextRate]_vars

InitPub ==
    /\ now = 1
    /\ pcfg \in [retries : RetryCounts, retry_backoff_ms : BackoffBases]
    /\ cb = CircuitBreakerNew
    /\ pub = [p \in Publishers |-> TaskIdle]
    /\ lock = None
    /\ opening = 0
    /\ health = [calls |-> 0, result |-> TRUE]
    /\ IdleBreaker
    /\ IdleRate
    /\ IdleCache
    /\ IdleGw

NextPub ==
    \/ PubTick
    \/ \E p \in Publishers, ser \in BOOLEAN : PublishStart(p, ser)
    \/ \E p \in Publishers, delivered \in BOOLEAN : Send(p, delivered)
    \/ \E p \in Publishers : Wake(p)
    \/ \E p \in Publishers : RecordOk(p)
    \/ \E p \in Publishers : RecordErr(p)

SpecPub == InitPub /\ [][NextPub]_vars

InitCache ==
    /\ now = 1
    /\ ccfg \in [max_entries : MaxEntries, enabled : BOOLEAN]
    /\ entries = <<>>
    /\ hits = 0
    /\ misses = 0
    /\ setters = [th \in Threads |-> None]
    /\ written = <<>>
    /\ swept = [runs |-> 0, removed |-> 0]
    /\ gets = 0
    /\ IdleBreaker
    /\ IdleRate
    /\ IdlePub
    /\ IdleGw

NextCache ==
    \/ CacheTick
    \/ \E k \in CacheKeys : Get(k)
    \/ \E th \in Threads, k \in CacheKeys, order \in IterOrders(entries) :
            SetEvict(th, k, order)
    \/ \E th \in Threads, d \in Payloads, ttl \in Ttls : SetInsert(th, d, ttl)
    \/ \E th \in Threads : SetDisabled(th)
    \/ Sweep
    \/ \E prefix \in Prefixes : InvalidatePrefix(prefix)

SpecCache == InitCache /\ [][NextCache]_vars

\* The middleware stack and the routes, for every request
InitAdmission ==
    /\ now = 1
    /\ gwcfg \in [auth_bypass_enabled : BOOLEAN,
                   max_request_age_secs : MaxRequestAges,
                   enforce_timestamps : BOOLEAN]
    /\ gw = GwIdle
    /\ IdleBreaker
    /\ IdleRate
    /\ IdlePub
    /\ IdleCache

NextAdmission ==
    \/ GwTick
    \/ \E path \in GwPaths, corr \in CorrelationIds, reqid \in RequestIds,
          ts \in Timestamps : ZeroTrustEnter(path, corr, reqid, ts)
    \/ \E auth_header \in Authorizations, api_key \in ApiKeys :
            AuthMiddleware(auth_header, api_key)
    \/ \E svc_ok \in BOOLEAN : RouteHandler(svc_ok)
    \/ ZeroTrustExit
    \/ \E auth_header \in Authorizations, api_key \in ApiKeys :
            OptionalAuthMiddleware(auth_header, api_key)

SpecAdmission == InitAdmission /\ [][NextAdmission]_vars

\* Requests with a valid bearer token to GET /v1/sources, while failures and
\* successes of the data connector are recorded in the registry
InitRoute ==
    /\ now = 1
    /\ cfg \in [failure_threshold : FailureThresholds,
                open_duration : OpenDurations,
                half_open_successes : HalfOpenSuccesses]
    /\ breakers = <<>>
    /\ obs = [s \in {DataConnector} |-> ObsNew]
    /\ touched = None
    /\ calls = CallsNone
    /\ thr = ThreadsIdle
    /\ hist = HistNew
    /\ IdleGw
    /\ IdleRate
    /\ IdlePub
    /\ IdleCache

NextRoute ==
    \/ BreakerTick
    \/ StateQuery(DataConnector) /\ UNCHANGED callerVars
    \/ AllowRequest(DataConnector) /\ UNCHANGED callerVars
    \/ RecordSuccess(DataConnector) /\ UNCHANGED callerVars
    \/ RecordFailure(DataConnector) /\ UNCHANGED callerVars
    \/ Metrics(DataConnector) /\ UNCHANGED callerVars
    \/ ZeroTrustEnter(SourcesPath, None, None, None)
    \/ AuthMiddleware(Some(<<"Bearer ", "t-good">>), None)
    \/ \E svc_ok \in BOOLEAN : RouteHandler(svc_ok)
    \/ ZeroTrustExit

SpecRoute == InitRoute /\ [][NextRoute]_vars

\* The three rejecting middlewares side by side: requests to GET /v1/sources
\* with or without a token and a stale or fresh timestamp, and requests of
\* one client to /search through rate_limit_middleware with limit 1
InitShortCircuit ==
    /\ now = 2
    /\ rlcfg = [default_limit |-> 2, search_limit |-> 1, sources_limit |-> 2,
                sync_limit |-> 1, window_secs |-> 2,
                skip_rate_limiting |-> FALSE]
    /\ redis = <<>>
    /\ rlResp = [status |-> "none"]
    /\ rlLog = <<>>
    /\ rlRejected = {}
    /\ IdleGw
    /\ IdleBreaker
    /\ IdlePub
    /\ IdleCache

NextShortCircuit ==
    \/ GwTick
    \/ \E ts \in {None, Some(chars(Epoch + 401))} :
            ZeroTrustEnter(SourcesPath, None, None, ts)
    \/ \E auth_header \in {None, Some(<<"Bearer ", "t-good">>),
                            Some(<<"Bearer ", "t-bad">>)} :
            AuthMiddleware(auth_header, None)
    \/ RouteHandler(TRUE)
    \/ ZeroTrustExit
    \/ \E c \in Clients : RateLimitRequest(c, <<"/", "search">>, TRUE, TRUE, TRUE)

SpecShortCircuit == InitShortCircuit /\ [][NextShortCircuit]_vars

\* One client on the three search routes of the router, search_limit 1
SearchRoutes ==
    {<<"/", "v1", "/", "search">>, <<"/", "v1", "/", "search", "/", "vector">>,
     <<"/", "v1", "/", "search", "/", "graph">>}

InitBucket ==
    /\ now = 2
    /\ rlcfg \in [default_limit : {2}, search_limit : Limits,
                  sources_limit : {2}, sync_limit : {1},
                  window_secs : {2, 3}, skip_rate_limiting : {FALSE}]
    /\ redis = <<>>
    /\ rlResp = [status |-> "none"]
    /\ rlLog = <<>>
    /\ rlRejected = {}
    /\ IdleGw
    /\ IdleBreaker
    /\ IdlePub
    /\ IdleCache

NextBucket ==
    \/ RateTick
    \/ \E c \in Clients, p \in SearchRoutes :
            RateLimitRequest(c, p, TRUE, TRUE, TRUE)

SpecBucket == InitBucket /\ [][NextBucket]_vars

\* The cache at a capacity where the eviction batch is not empty
\* (max_entries / 10 = 1): a store holding max_entries entries, at most
\* MaxExpired of them past their expiry, and one thread calling set()
EvictKeys == {<<"e", DigitChars[i]>> : i \in 1 .. 10}

FullStores ==
    {[k \in EvictKeys |-> [data |-> "a", status |-> 200,
                           content_type |-> "application/json",
                           expires_at |-> IF k \in X THEN 2 ELSE 5]] :
        X \in {Y \in SUBSET EvictKeys : Cardinality(Y) <= MaxExpired}}

InitEvict ==
    /\ now = 3
    /\ ccfg = [max_entries |-> Cardinality(EvictKeys), enabled |-> TRUE]
    /\ entries \in FullStores
    /\ hits = 0
    /\ misses = 0
    /\ setters = [th \in Threads |-> None]
    /\ written = <<>>
    /\ swept = [runs |-> 0, removed |-> 0]
    /\ gets = 0
    /\ IdleBreaker
    /\ IdleRate
    /\ IdlePub
    /\ IdleGw

NextEvict ==
    \/ CacheTick
    \/ \E k \in {<<"k", "1">>, <<"k", "2">>}, order \in IterPrefixes(entries, 1) :
            SetEvict("t1", k, order)
    \/ \E ttl \in Ttls : SetInsert("t1", "b", ttl)

SpecEvict == InitEvict /\ [][NextEvict]_vars

\* The cache with one thread calling set() and get(), and the sweep
InitSweep ==
    /\ now = 1
    /\ ccfg \in [max_entries : MaxEntries, enabled : {TRUE}]
    /\ entries = <<>>
    /\ hits = 0
    /\ misses = 0
    /\ setters = [th \in Threads |-> None]
    /\ written = <<>>
    /\ swept = [runs |-> 0, removed |-> 0]
    /\ gets = 0
    /\ IdleBreaker
    /\ IdleRate
    /\ IdlePub
    /\ IdleGw

NextSweep ==
    \/ CacheTick
    \/ \E k \in CacheKeys : Get(k)
    \/ \E k \in CacheKeys, order \in IterOrders(entries) : SetEvict("t1", k, order)
    \/ \E d \in Payloads, ttl \in Ttls : SetInsert("t1", d, ttl)
    \/ Sweep

SpecSweep == InitSweep /\ [][NextSweep]_vars

\* The publisher with is_healthy() called while its tasks publish
InitHealth ==
    /\ now = 1
    /\ pcfg \in [retries : {0, 1}, retry_backoff_ms : {1}]
    /\ cb = CircuitBreakerNew
    /\ pub = [p \in Publishers |-> TaskIdle]
    /\ lock = None
    /\ opening = 0
    /\ health = [calls |-> 0, result |-> TRUE]
    /\ IdleBreaker
    /\ IdleRate
    /\ IdleCache
    /\ IdleGw

NextHealth ==
    \/ PubTick
    \/ \E p \in Publishers : PublishStart(p, TRUE)
    \/ \E p \in Publishers, delivered \in BOOLEAN : Send(p, delivered)
    \/ \E p \in Publishers : Wake(p)
    \/ \E p \in Publishers : RecordOk(p)
    \/ \E p \in Publishers : RecordErr(p)
    \/ IsHealthy

SpecHealth == InitHealth /\ [][NextHealth]_vars

\* The registry used for two services
TwoServices == {"auth", DataConnector}

InitIsolation ==
    /\ now = 3
    /\ cfg \in [failure_threshold : FailureThresholds,
                open_duration : {1},
                half_open_successes : {1}]
    /\ breakers = <<>>
    /\ obs = [s \in TwoServices |-> ObsNew]
    /\ touched = None
    /\ calls = CallsNone
    /\ thr = ThreadsIdle
    /\ hist = HistNew
    /\ IdleRate
    /\ IdlePub
    /\ IdleCache
    /\ IdleGw

NextIsolation ==
    \/ BreakerTick
    \/ \E s \in TwoServices : StateQuery(s) /\ UNCHANGED callerVars
    \/ \E s \in TwoServices : AllowRequest(s) /\ UNCHANGED callerVars
    \/ \E s \in TwoServices : RecordSuccess(s) /\ UNCHANGED callerVars
    \/ \E s \in TwoServices : RecordFailure(s) /\ UNCHANGED callerVars
    \/ \E s \in TwoServices : Metrics(s) /\ UNCHANGED callerVars

SpecIsolation == InitIsolation /\ [][NextIsolation]_vars

\* The cache used with the keys of build_key: one thread stores, as the
\* payload of a key, the request the response belongs to
InitKey ==
    /\ now = MaxTime - 1
    /\ ccfg \in [max_entries : MaxEntries, enabled : {TRUE}]
    /\ entries = <<>>
    /\ hits = 0
    /\ misses = 0
    /\ setters = [th \in Threads |-> None]
    /\ written = <<>>
    /\ swept = [runs |-> 0, removed |-> 0]
    /\ gets = 0
    /\ IdleBreaker
    /\ IdleRate
    /\ IdlePub
    /\ IdleGw

NextKey ==
    \/ CacheTick
    \/ \E r \in CachedRequests, order \in IterPrefixes(entries, 1) :
            SetEvict("t1", request_key(r), order)
    \/ \E r \in CachedRequests :
            /\ setters["t1"] = Some(request_key(r))
            /\ SetInsert("t1", r, 1)

SpecKey == InitKey /\ [][NextKey]_vars

-----------------------------------------------------------------------------
(* Claims about the circuit breaker registry (SpecBreaker) *)

Breaker(s) == get_or_create(breakers, s)[s]

\* C1: once failure_threshold consecutive failures have been recorded for a
\* service, allow_request(service) returns false, and keeps returning false
\* until open_duration has elapsed since that opening, whatever else is
\* recorded for the service in the meantime.
C1_BlockedUntilOpenDurationElapsed ==
    \A s \in Services :
        (obs[s].tripAt > 0 /\ now - obs[s].tripAt < cfg.open_duration)
            => ~AllowNow(s)

\* C2: a record_failure made while the breaker is HalfOpen re-opens it at
\* once: afterwards the state is Open, allow_request is false and the probe
\* counter is zero, also when probe successes were recorded before it.
C2_HalfOpenFailureReopens ==
    [][\A s \in Services :
          (StateNow(s) = "HalfOpen" /\ obs'[s].failStreak = obs[s].failStreak + 1)
              => /\ StateNow(s)' = "Open"
                 /\ ~AllowNow(s)'
                 /\ Breaker(s)'.half_open_probes = 0]_vars

\* C3 as stated: after an opening, as long as no success closes the breaker,
\* the allow_request calls made once open_duration has elapsed return true
\* half_open_successes + 1 times in all and false on every further call.
C3_AllowanceUntilClosed ==
    \A s \in Services :
        Breaker(s).opened_at # 0
            => obs[s].grantedO <= cfg.half_open_successes + 1

\* C3 as amended: within one period (from an opening or re-opening to the
\* next re-opening or closing) the allow_request calls made once
\* open_duration has elapsed return true for the first
\* half_open_successes + 1 calls and false for every further call.
C3_AllowancePerPeriod ==
    \A s \in Services :
        Breaker(s).opened_at # 0
            => /\ obs[s].granted <= cfg.half_open_successes + 1
               /\ obs[s].denied => obs[s].granted = cfg.half_open_successes + 1

\* A HalfOpen breaker whose allowance is used up and that has refused a call
C3_AllowanceUsedUp ==
    \E s \in Services :
        /\ StateNow(s) = "HalfOpen"
        /\ obs[s].denied
        /\ obs[s].granted = cfg.half_open_successes + 1
        /\ cfg.half_open_successes = 2

\* C4: a breaker that is HalfOpen closes on the half_open_successes-th
\* consecutive success recorded while HalfOpen, leaving both counters and
\* the probe counter at zero (metrics = (Closed, 0, 0)), and never on fewer.
C4_ClosesOnHalfOpenSuccesses ==
    [][\A s \in Services :
          /\ (StateNow(s) = "HalfOpen" /\ Breaker(s)'.opened_at = 0)
                => /\ obs'[s].hoSucc >= cfg.half_open_successes
                   /\ metrics(Breaker(s), now)' = <<"Closed", 0, 0>>
                   /\ Breaker(s)'.half_open_probes = 0
          /\ (obs'[s].hoSucc = cfg.half_open_successes
                    /\ obs'[s].hoSucc # obs[s].hoSucc)
                => metrics(Breaker(s), now)' = <<"Closed", 0, 0>>]_vars

\* C18: after any sequence of record_success and record_failure calls on a
\* service at most one of consecutive_failures and consecutive_successes
\* is non-zero: when the last call recorded was a success
\* consecutive_failures is 0, when it was a failure consecutive_successes
\* is 0.
C18_CountersExclusive ==
    \A s \in DOMAIN breakers :
        /\ breakers[s].consecutive_failures = 0
                \/ breakers[s].consecutive_successes = 0
        /\ obs[s].failStreak = 0 => breakers[s].consecutive_failures = 0
        /\ obs[s].failStreak > 0 => breakers[s].consecutive_successes = 0

\* A success counted after failures had opened the breaker
C18_SuccessAfterFailures ==
    \E s \in DOMAIN breakers :
        /\ breakers[s].opened_at > 0
        /\ breakers[s].consecutive_successes = 1
        /\ breakers[s].consecutive_failures = 0
-----------------------------------------------------------------------------
(* Claims about the rate limiter (SpecRate) *)

\* The requests of a key recorded inside the window that ends at clock t
InWindow(key, t) ==
    IF key \in DOMAIN rlLog
    THEN Cardinality({i \in DOMAIN rlLog[key] :
                        rlLog[key][i] > t - rlcfg.window_secs})
    ELSE 0

\* C5: the k-th request of a client and route recorded inside the trailing
\* window is allowed with remaining = limit - k when k <= limit and rejected
\* when k > limit, however the requests are spaced (several of them may
\* carry the same clock value).
C5_WindowCountsRequests ==
    (rlResp.status # "none" /\ rlResp.healthy) =>
        LET k == InWindow(rlResp.key, rlResp.at)
            limit == rlResp.headers["X-RateLimit-Limit"]
        IN  IF k <= limit
            THEN /\ rlResp.forwarded
                 /\ rlResp.headers["X-RateLimit-Remaining"] = limit - k
            ELSE rlResp.status = "429"

\* C11: when the store is unreachable or a store command of the request
\* fails (the connection, the pipeline or the count), the request is
\* allowed: it is passed on to the next handler and never answered 429.
C11_FailsOpen ==
    (rlResp.status # "none" /\ rlResp.store_failed)
        => (rlResp.forwarded /\ rlResp.status # "429")

C30_ThreeHeadersOnEveryResponse ==
    (rlResp.status # "none" /\ ~rlcfg.skip_rate_limiting) =>
        {"X-RateLimit-Limit", "X-RateLimit-Remaining", "X-RateLimit-Reset"}
            \subseteq DOMAIN rlResp.headers
-----------------------------------------------------------------------------
(* Claims about the event publisher (SpecPub) *)

\* The failed attempts among the send attempts made so far
Failed(task) == Cardinality({i \in DOMAIN task.outcomes : ~task.outcomes[i]})

AllFailed(task) ==
    /\ Len(task.outcomes) = pcfg.retries + 1
    /\ \A i \in DOMAIN task.outcomes : ~task.outcomes[i]

C7_ExhaustedReturnsMaxRetriesExceeded ==
    \A p \in Publishers :
        (pub[p].pc = "idle" /\ AllFailed(pub[p]))
            => pub[p].result = "MaxRetriesExceeded"

\* C8: a publish that starts while the breaker is Open and its recovery
\* timeout has not run out returns CircuitBreakerOpen without serializing
\* the event and without a send attempt, and leaves the breaker as it was.
C8_FailFastWhileOpen ==
    [][\A p \in Publishers :
          (pub[p].pc = "idle" /\ pub'[p] # pub[p]
                /\ cb.state = "Open" /\ ~cb_recovered(cb, now))
              => /\ pub'[p].result = "CircuitBreakerOpen"
                 /\ pub'[p].pc = "idle"
                 /\ ~pub'[p].serialized
                 /\ pub'[p].outcomes = <<>>
                 /\ cb' = cb]_vars

\* A publish refused by the Open breaker
C8_Refused ==
    \E p \in Publishers :
        /\ pub[p].result = "CircuitBreakerOpen"
        /\ pub[p].pc = "idle"
        /\ cb.state = "Open"
        /\ ~cb_recovered(cb, now)

\* C19: a publish that was admitted and reached the transport records
\* exactly one breaker outcome, when it returns: one failure when all its
\* attempts failed (whatever their number), one success when an attempt was
\* delivered.  Recording the failure adds one to the failure counter;
\* recording the success leaves the breaker Closed with failure counter 0.
C19_OneOutcomePerPublish ==
    [][\A p \in Publishers :
          LET task == pub'[p]
              o == task.outcomes
          IN  /\ Len(task.recorded) <= 1
              /\ task.recorded # <<>> => (task.pc = "idle" /\ o # <<>>)
              /\ (task.pc = "idle" /\ o # <<>>)
                    => task.recorded =
                         <<IF o[Len(o)] THEN "success" ELSE "failure">>
              /\ (task.recorded = <<"failure">> /\ pub[p].recorded = <<>>)
                    => /\ AllFailed(task)
                       /\ cb'.failures = cb.failures + 1
              /\ (task.recorded = <<"success">> /\ pub[p].recorded = <<>>)
                    => /\ cb'.state = "Closed"
                       /\ cb'.failures = 0]_vars

\* A publish whose three attempts all failed has recorded its one failure,
\* after another publish had failed before it
C19_OneFailureForThreeAttempts ==
    \E p \in Publishers :
        /\ pub[p].pc = "idle"
        /\ Len(pub[p].outcomes) = 3
        /\ pub[p].recorded = <<"failure">>
        /\ cb.failures = 2

\* A step in which a publish recorded its failure, or its success
FailureRecorded ==
    \E p \in Publishers : pub[p].recorded = <<>> /\ pub'[p].recorded = <<"failure">>

SuccessRecorded ==
    \E p \in Publishers : pub[p].recorded = <<>> /\ pub'[p].recorded = <<"success">>

\* The tag of the publisher's breaker agrees with its failure counter
TagAgreesWithCounter ==
    /\ cb.state = "Closed" => cb.failures < cb.threshold
    /\ cb.state \in {"Open", "HalfOpen"} => cb.failures >= cb.threshold

\* The counter counts the failures recorded since the last success, and the
\* breaker opens when, and only when, a recorded failure brings it to the
\* threshold or beyond
CounterCountsFailures ==
    /\ FailureRecorded =>
            (/\ cb'.failures = cb.failures + 1
             /\ (cb'.state = "Open") = (cb'.failures >= cb.threshold)
             /\ (cb.state = "HalfOpen" => cb'.state = "Open"))
    /\ SuccessRecorded => cb'.failures = 0
    /\ (cb.state # "Open" /\ cb'.state = "Open") => FailureRecorded

\* C35: in every reachable state of the publisher's breaker the tag agrees
\* with the counter (Closed implies failures < threshold, Open or HalfOpen
\* implies failures >= threshold); the counter is the number of failed
\* publishes since the last successful one, the breaker opens exactly when
\* it reaches the threshold, and a failure recorded while HalfOpen returns
\* the breaker to Open.
C35_TagAgreesWithCounter ==
    /\ []TagAgreesWithCounter
    /\ [][CounterCountsFailures]_vars

\* A failure has been recorded on a breaker that was at its threshold
\* already, and the breaker is Open with no publish in flight
C35_ReopenedByProbeFailure ==
    /\ cb.state = "Open"
    /\ cb.failures > cb.threshold
    /\ \E p \in Publishers : pub[p].recorded = <<"failure">>
    /\ \A p \in Publishers : pub[p].pc = "idle"

\* C34: once the publisher's breaker has opened, every publish that starts
\* before the recovery timeout has elapsed since the opening fails with
\* CircuitBreakerOpen, also when publishes admitted before the opening
\* complete, successfully or not, during that interval.
C34_RefusedUntilTimeoutSinceOpening ==
    [][\A p \in Publishers :
        (/\ pub[p].pc = "idle"
         /\ pub'[p] # pub[p]
         /\ opening # 0
         /\ now - opening < cb.recovery_timeout)
        => pub'[p].result = "CircuitBreakerOpen"]_vars
-----------------------------------------------------------------------------
(* Claims about the response cache (SpecCache) *)

\* C9: the cache never returns an entry once now >= expires_at: for every
\* key whose entry has now >= expires_at, get(key) returns a miss.
C9_ExpiredEntryIsMiss ==
    \A k \in DOMAIN entries :
        now >= entries[k].expires_at => ~get_result(entries, k, now).hit

\* C10: in every reachable state the number of stored entries is at most
\* max_entries.
C10_SizeWithinMaxEntries ==
    Cardinality(DOMAIN entries) <= ccfg.max_entries

\* C32: every get on an enabled cache is counted exactly once: a get that
\* returns an entry increments hits, a get that returns a miss (key
\* expired, absent, or removed by the sweep) increments misses, so that
\* hits + misses grows by one with every get.
C32_EveryGetCounted ==
    [][(gets' # gets /\ ccfg.enabled) =>
            hits' + misses' = hits + misses + 1]_vars
-----------------------------------------------------------------------------
(* Claims about the admission layer (SpecAdmission) *)

\* C12: with the bypass flag off, auth_middleware resolves the identity in
\* this order: a bearer token, when the request carries one, is verified
\* with the authentication service; otherwise an API key, when the request
\* carries one, is validated and a valid key gives the identity built from
\* the key (its user id, its scopes as roles); otherwise the request is
\* rejected as Unauthorized.  A request with a valid API key and no bearer
\* token resolves to the API-key identity whatever its Authorization
\* header contains.
C12_ResolutionOrder ==
    (gw.mw = "stack" /\ gw.auth # "none" /\ ~gwcfg.auth_bypass_enabled) =>
        LET token == IF gw.authz # None
                     THEN strip_prefix_bearer(gw.authz[1]) ELSE None
        IN  IF token # None
            THEN /\ gw.auth_calls = <<<<"verify_token", token[1]>>>>
                 /\ IF verify_token(token[1]).ok
                    THEN /\ gw.auth = "next"
                         /\ gw.user = Some(verify_token(token[1]).user)
                    ELSE gw.auth = "err"
            ELSE IF gw.api_key # None
            THEN /\ gw.auth_calls = <<<<"validate_api_key", gw.api_key[1]>>>>
                 /\ IF validate_api_key(gw.api_key[1]).ok
                    THEN /\ gw.auth = "next"
                         /\ gw.user = Some(api_key_user(
                                    validate_api_key(gw.api_key[1]).info))
                    ELSE gw.auth = "err"
            ELSE /\ gw.auth = "err"
                 /\ gw.resp.code = "UNAUTHORIZED"
                 /\ gw.auth_calls = <<>>

\* C13: with the bypass flag set, auth_middleware and
\* optional_auth_middleware attach the demo user to the request whatever
\* its Authorization and X-API-Key headers are, run the next handler, and
\* make no call to the authentication service.
C13_BypassAttachesDemoUser ==
    (gwcfg.auth_bypass_enabled /\ gw.auth # "none") =>
        /\ gw.auth = "next"
        /\ gw.user = Some(demo_user)
        /\ gw.auth_calls = <<>>
        /\ gw.pc # "handler" => gw.handler # "none"
        /\ gw.resp.code # "UNAUTHORIZED"

\* A request with a bad token and a bad key that reached list_sources
\* under the bypass flag
C13_BypassedBadCredentials ==
    /\ gwcfg.auth_bypass_enabled
    /\ gw.mw = "stack"
    /\ gw.authz = Some(<<"Bearer ", "t-bad">>)
    /\ gw.api_key = Some("k-bad")
    /\ gw.handler = "list_sources"

\* C14: a request with a parseable X-Request-Timestamp is rejected with
\* STALE_REQUEST (status 400) if and only if the absolute difference
\* between the timestamp and the server's time is greater than the
\* configured max_request_age_secs.
C14_StaleIffDriftExceedsConfigured ==
    (gw.mw = "stack" /\ gw.zt \in {"passed", "rejected"}
            /\ gw.ts # None /\ parse_u64(gw.ts[1]) # None) =>
        LET ts == parse_u64(gw.ts[1])[1]
            secs == now_secs(gw.at)
            d == IF secs > ts THEN secs - ts ELSE ts - secs
        IN  /\ gw.zt = "rejected" <=> d > gwcfg.max_request_age_secs
            /\ gw.zt = "rejected"
                    => (gw.resp.status = 400 /\ gw.resp.code = "STALE_REQUEST")

\* C15: every response to a request that came through
\* zero_trust_middleware has an X-Correlation-Id header, equal to the
\* request's X-Correlation-Id when it had one: also the STALE_REQUEST
\* rejections and the responses for the health, status and metrics paths.
C15_CorrelationIdOnEveryResponse ==
    (gw.mw = "stack" /\ gw.pc = "done") =>
        /\ "X-Correlation-Id" \in DOMAIN gw.resp.headers
        /\ gw.corr # None => gw.resp.headers["X-Correlation-Id"] = gw.corr[1]

\* C26: a request whose X-Request-Timestamp header is missing or malformed
\* passes the integrity validation when timestamp enforcement is not
\* mandatory, and is rejected when it is (enforce_timestamps = true).
C26_MissingTimestampRejectedWhenEnforced ==
    (gw.mw = "stack" /\ gw.zt \in {"passed", "rejected"}
            /\ (gw.ts = None \/ parse_u64(gw.ts[1]) = None)) =>
        (gw.zt = "rejected" <=> gwcfg.enforce_timestamps)

\* C25: optional_auth_middleware never rejects a request, and it resolves
\* the identity as auth_middleware does: whenever auth_middleware would
\* resolve the request to an identity (by bearer token or by API key),
\* optional_auth_middleware attaches that identity, and whenever
\* auth_middleware would reject, it forwards the request with no identity.
C25_OptionalResolvesAsAuth ==
    (gw.mw = "optional_auth" /\ gw.pc = "done") =>
        LET a == auth_middleware(gwcfg.auth_bypass_enabled, gw.authz, gw.api_key)
        IN  /\ gw.handler = "next"
            /\ gw.user = IF a.next THEN a.user ELSE None
-----------------------------------------------------------------------------
(* Claims about the routes and the breaker registry (SpecRoute) *)

\* C16: a handler never calls the downstream service while allow_request
\* for that service would return false: a request to a protected route
\* whose target's breaker is Open is rejected before any call to it.
C16_NoCallWhileBreakerRefuses ==
    [][gw'.downstream # gw.downstream => AllowNow(DataConnector)]_vars
-----------------------------------------------------------------------------
(* Claims about the rejecting middlewares (SpecShortCircuit) *)

\* C17: a request that auth_middleware answers with an error, that the
\* zero-trust layer rejects as stale, or that the rate limiter rejects is
\* never passed to the next handler: no route handler runs for it and no
\* downstream service is called on its behalf (for a stale request, not
\* even the authentication service).
C17_RejectionsShortCircuit ==
    /\ gw.auth = "err"
            => (gw.handler = "none" /\ gw.downstream = <<>>
                    /\ gw.pc \in {"zt_exit", "done"})
    /\ gw.resp.code = "STALE_REQUEST"
            => (gw.auth = "none" /\ gw.auth_calls = <<>>
                    /\ gw.handler = "none" /\ gw.downstream = <<>>
                    /\ gw.pc = "done")
    /\ rlResp.status = "429" => ~rlResp.forwarded

\* A request answered 401 by auth_middleware, while the rate limiter's last
\* answer is a 429
C17_RejectedBoth ==
    /\ gw.pc = "done"
    /\ gw.auth = "err"
    /\ gw.resp.status = 401
    /\ rlResp.status = "429"
-----------------------------------------------------------------------------
(* Claims about the route buckets of the rate limiter (SpecBucket) *)

\* The bucket of the path a key was built from (its '/' are '_' in the key)
KeyBucket(key) ==
    LET has(seg) == \E i \in 1 .. Len(key[3]) - 1 :
                        key[3][i] = "_" /\ key[3][i + 1] = seg
    IN  IF has("search") THEN "search"
        ELSE IF has("sources") THEN "sources"
        ELSE IF has("sync") THEN "sync"
        ELSE "default"

\* The clock values, inside the window that ends at t, of the requests
\* recorded for a client in a bucket, whatever their paths
BucketWindow(client, bucket, t) ==
    UNION {{rlLog[k][i] : i \in {j \in DOMAIN rlLog[k] :
                                    rlLog[k][j] > t - rlcfg.window_secs}} :
           k \in {q \in DOMAIN rlLog : q[2] = client /\ KeyBucket(q) = bucket}}

\* C21: there is one window per client and route bucket: the requests of a
\* client to different paths of one bucket are counted together against
\* the bucket's limit.  (Requests are counted by their distinct clock
\* values, as one sorted set counts them.)
C21_OneWindowPerBucket ==
    (rlResp.status # "none" /\ rlResp.healthy) =>
        LET k == Cardinality(BucketWindow(rlResp.key[2], KeyBucket(rlResp.key),
                                          rlResp.at))
            limit == rlResp.headers["X-RateLimit-Limit"]
        IN  IF k <= limit
            THEN /\ rlResp.forwarded
                 /\ rlResp.headers["X-RateLimit-Remaining"] = limit - k
            ELSE rlResp.status = "429"
-----------------------------------------------------------------------------
(* Claims about the eviction pass of set() (SpecEvict) *)

\* A step in which some thread's set() ran its eviction pass on a full store
EvictionPass ==
    /\ \E th \in Threads : setters[th] = None /\ setters'[th] # None
    /\ Cardinality(DOMAIN entries) >= ccfg.max_entries

\* C22: when set finds the store at or above max_entries, its eviction pass
\* removes expired entries first: it never removes an unexpired entry while
\* an expired entry remains in the store.
C22_ExpiredRemovedFirst ==
    [][EvictionPass =>
        \A k \in DOMAIN entries \ DOMAIN entries' :
            entries[k].expires_at > now =>
                ~\E j \in DOMAIN entries' : entries'[j].expires_at < now]_vars
\* C23: set(key, payload, status, contentType, ttl) followed by get(key)
\* before the entry expires returns exactly the stored payload, status and
\* content type, when no set and no invalidation of that key intervenes
\* (a later set on the key replaces what get returns, and the expiry).
C23_GetReturnsLastSet ==
    \A k \in DOMAIN written :
        (/\ now < written[k].expires_at
         /\ \A th \in Threads : setters[th] # Some(k))
        => get_result(entries, k, now) =
                [hit |-> TRUE, data |-> written[k].data,
                 status |-> written[k].status,
                 content_type |-> written[k].content_type]
-----------------------------------------------------------------------------
(* Claims about the sweep (SpecSweep) *)

\* A step in which the sweep ran
SweepRun == swept'.runs # swept.runs

\* C24: each run of the background sweep removes every entry whose expiry
\* has passed (expires_at <= now) and no entry that has not yet expired, and
\* it changes neither the hit nor the miss counter.
C24_SweepRemovesExactlyExpired ==
    [][SweepRun =>
        /\ DOMAIN entries' = {k \in DOMAIN entries : ~(entries[k].expires_at <= now)}
        /\ \A k \in DOMAIN entries' : entries'[k] = entries[k]
        /\ hits' = hits
        /\ misses' = misses]_vars

\* The last run of the sweep removed an entry; the store holds entries, none
\* of them expired, and gets have been counted
C24_SweptSome ==
    /\ swept.removed > 0
    /\ \A k \in DOMAIN entries : entries[k].expires_at > now
    /\ DOMAIN entries # {}
    /\ hits + misses > 0
-----------------------------------------------------------------------------
(* Claims about is_healthy() and the breaker lock (SpecHealth) *)

\* C27: is_healthy() returns false if and only if the state of the
\* publisher's breaker is Open, and a call changes neither the breaker's
\* state nor its failure counter.
C27_HealthyIffNotOpen ==
    [][health'.calls # health.calls =>
        /\ health'.result = FALSE <=> cb.state = "Open"
        /\ cb'.state = cb.state
        /\ cb'.failures = cb.failures]_vars

\* is_healthy() has answered false on an open breaker whose recovery
\* timeout has elapsed
C27_UnhealthyAfterTimeout ==
    /\ health.calls = 1
    /\ ~health.result
    /\ cb.state = "Open"
    /\ cb_recovered(cb, now)

-----------------------------------------------------------------------------
(* Claims about the registry used for several services (SpecIsolation) *)

\* C29: breaker state is per service: allow_request, record_success,
\* record_failure, state and metrics on a service A leave the counters, the
\* opened timestamp and the probe counter of every other service B
\* unchanged, and with them what state(B) and allow_request(B) return.
C29_OtherServicesUntouched ==
    [][\A a, b \in TwoServices :
        (a # b /\ touched' = Some(a) /\ now' = now) =>
            /\ Breaker(b)' = Breaker(b)
            /\ StateNow(b)' = StateNow(b)
            /\ AllowNow(b)' = AllowNow(b)]_vars

\* A failure has just been recorded for the data connector, which is open,
\* while auth is half-open with its probe used up
C29_OneOpenOtherHalfOpen ==
    /\ touched = Some(DataConnector)
    /\ StateNow(DataConnector) = "Open"
    /\ StateNow("auth") = "HalfOpen"
    /\ ~AllowNow("auth")
\* C38: whenever is_healthy() returns false, a publish started at that same
\* moment is refused with CircuitBreakerOpen; equivalently, whenever the
\* breaker would admit a publish, is_healthy() returns true, also once the
\* recovery timeout has elapsed with no publish in between.
C38_UnhealthyMeansRefused ==
    can_execute(cb, now) => is_healthy
-----------------------------------------------------------------------------
(* Claims about the cache keys (SpecKey) *)

\* C37: cache keys separate callers: build_key maps two requests that
\* differ in method, path, query or caller identity (an absent caller being
\* anonymous) to different keys, so that get never returns, for one
\* request, an entry stored for a different caller's or an anonymous
\* request.
C37_KeysSeparateRequests ==
    \A r \in CachedRequests :
        LET g == get_result(entries, request_key(r), now)
        IN  g.hit => g.data = r

-----------------------------------------------------------------------------
(* The registry behind callers that ask allow_request before every call   *)
(* and record the outcome of every call that was let through              *)
(* (circuit_breaker.rs: allow_request, record_success, record_failure)    *)

\* Calls in flight at once
MaxInflight == 2

InitLive ==
    /\ now = 1
    /\ cfg \in [failure_threshold : FailureThresholds,
                open_duration : {1},
                half_open_successes : HalfOpenSuccesses]
    /\ breakers = <<>>
    /\ obs = [s \in Services |-> ObsNew]
    /\ touched = None
    /\ calls = [inflight |-> 0, faulty |-> TRUE]
    /\ thr = ThreadsIdle
    /\ hist = HistNew
    /\ IdleRate
    /\ IdlePub
    /\ IdleCache
    /\ IdleGw

\* A caller asks allow_request; the call is made when it returns true
CallAsk(s) ==
    /\ calls.inflight < MaxInflight
    /\ AllowRequest(s)
    /\ calls' = [calls EXCEPT !.inflight = @ + (IF AllowNow(s) THEN 1 ELSE 0)]
    /\ UNCHANGED <<thr, hist>>

\* A call that was let through succeeds and is recorded
CallSucceeds(s) ==
    /\ calls.inflight > 0
    /\ RecordSuccess(s)
    /\ calls' = [calls EXCEPT !.inflight = @ - 1]
    /\ UNCHANGED <<thr, hist>>

\* A call that was let through fails, while the service is failing, and is
\* recorded
CallFails(s) ==
    /\ calls.faulty
    /\ calls.inflight > 0
    /\ RecordFailure(s)
    /\ calls' = [calls EXCEPT !.inflight = @ - 1]
    /\ UNCHANGED <<thr, hist>>

\* The downstream service stops failing
ServiceRecovers ==
    /\ calls.faulty
    /\ calls' = [calls EXCEPT !.faulty = FALSE]
    /\ UNCHANGED <<now, cfg, breakers, obs, touched, thr, hist,
                   rateVars, pubVars, cacheVars, gwVars>>

NextLive ==
    \/ BreakerTick
    \/ \E s \in Services : CallAsk(s)
    \/ \E s \in Services : CallSucceeds(s)
    \/ \E s \in Services : CallFails(s)
    \/ ServiceRecovers

\* Time keeps advancing, callers keep asking, and calls in flight complete
SpecLive ==
    /\ InitLive
    /\ [][NextLive]_vars
    /\ WF_vars(BreakerTick)
    /\ \A s \in Services : WF_vars(CallAsk(s))
    /\ \A s \in Services : WF_vars(CallSucceeds(s))

\* C31: once the service has stopped failing, a breaker that is not Closed
\* and whose open duration ends within the clock's range returns to Closed
C31_EventuallyClosed ==
    \A s \in Services :
        (/\ ~calls.faulty
         /\ StateNow(s) # "Closed"
         /\ Breaker(s).opened_at + cfg.open_duration <= MaxTime)
            ~> (StateNow(s) = "Closed")

-----------------------------------------------------------------------------
(* The registry's methods one atomic operation at a time: two threads call *)
(* allow_request, record_success and record_failure for one service, each  *)
(* load, store and fetch_add of a method a step of its own                 *)
(* (circuit_breaker.rs: Ordering::Relaxed atomics of BreakerState)         *)

\* The thread is between two atomic operations of record_success or
\* record_failure
InRecord(t) == t.pc \notin {"idle", "probe"}

\* A store to opened_at ends the half-open period: the counts move on, and
\* the threads that have read HalfOpen and not yet counted their probe are
\* one period behind
PeriodEnds(h) == [h EXCEPT !.prev = h.cur, !.cur = 0]

Behind(ts, th) ==
    [x \in DOMAIN ts |->
        IF x # th /\ ts[x].pc = "probe"
        THEN [ts[x] EXCEPT !.stale = Min(@ + 1, 2)] ELSE ts[x]]

\* The group of record calls is given up, or over
Forget(h) ==
    [h EXCEPT !.base = BreakerStateNew, !.clean = FALSE,
              !.ops = [x \in DOMAIN h.ops |-> "none"]]

\* A record call begins: it opens a group when no other is under way
RecordBegins(h, th, op, br) ==
    IF \A x \in DOMAIN thr : ~InRecord(thr[x])
    THEN [h EXCEPT !.base = br, !.clean = TRUE,
                   !.ops = [x \in DOMAIN thr |-> IF x = th THEN op ELSE "none"]]
    ELSE IF h.clean /\ h.ops[th] = "none"
    THEN [h EXCEPT !.ops[th] = op]
    ELSE Forget(h)

\* A record call returns: the group is over when no other is under way
RecordReturns(h, th) ==
    IF \A x \in DOMAIN thr \ {th} : ~InRecord(thr[x]) THEN Forget(h) ELSE h

\* allow_request: match self.state(service)
AllowState(s, th) ==
    LET m == get_or_create(breakers, s)
    IN  /\ thr[th].pc = "idle"
        /\ breakers' = m
        /\ thr' = IF state(m[s], now) = "HalfOpen"
                  THEN [thr EXCEPT ![th].pc = "probe", ![th].stale = 0]
                  ELSE thr
        /\ UNCHANGED <<now, cfg, obs, touched, calls, hist,
                       rateVars, pubVars, cacheVars, gwVars>>

\* allow_request, HalfOpen arm: half_open_probes.fetch_add(1) and the
\* comparison with half_open_successes + 1
AllowProbe(s, th) ==
    LET m == get_or_create(breakers, s)
        probes == m[s].half_open_probes
        ret == probes < cfg.half_open_successes + 1
    IN  /\ thr[th].pc = "probe"
        /\ probes < MaxCount
        /\ breakers' = [m EXCEPT ![s].half_open_probes = probes + 1]
        /\ thr' = [thr EXCEPT ![th] = ThreadIdle]
        /\ hist' = [Forget(hist) EXCEPT
                !.cur = @ + (IF ret /\ thr[th].stale = 0 THEN 1 ELSE 0),
                !.prev = @ + (IF ret /\ thr[th].stale = 1 THEN 1 ELSE 0)]
        /\ UNCHANGED <<now, cfg, obs, touched, calls,
                       rateVars, pubVars, cacheVars, gwVars>>

\* record_success: consecutive_failures.store(0)
SuccessResetFailures(s, th) ==
    LET m == get_or_create(breakers, s)
    IN  /\ thr[th].pc = "idle"
        /\ breakers' = [m EXCEPT ![s].consecutive_failures = 0]
        /\ thr' = [thr EXCEPT ![th].pc = "s_count"]
        /\ hist' = RecordBegins(hist, th, "success", m[s])
        /\ UNCHANGED <<now, cfg, obs, touched, calls,
                       rateVars, pubVars, cacheVars, gwVars>>

\* record_success: successes = consecutive_successes.fetch_add(1) + 1
SuccessCount(s, th) ==
    LET m == get_or_create(breakers, s)
        successes == m[s].consecutive_successes + 1
    IN  /\ thr[th].pc = "s_count"
        /\ successes <= MaxCount
        /\ breakers' = [m EXCEPT ![s].consecutive_successes = successes]
        /\ thr' = [thr EXCEPT ![th].pc = "s_load", ![th].successes = successes]
        /\ UNCHANGED <<now, cfg, obs, touched, calls, hist,
                       rateVars, pubVars, cacheVars, gwVars>>

\* record_success: opened = opened_at.load(), and the two conditions
SuccessLoadOpened(s, th) ==
    LET m == get_or_create(breakers, s)
        opened == m[s].opened_at
    IN  /\ thr[th].pc = "s_load"
        /\ breakers' = m
        /\ thr' = IF opened > 0 /\ thr[th].successes >= cfg.half_open_successes
                  THEN [thr EXCEPT ![th].pc = "s_close"]
                  ELSE [thr EXCEPT ![th] = ThreadIdle]
        /\ hist' = IF thr'[th].pc = "idle" THEN RecordReturns(hist, th) ELSE hist
        /\ UNCHANGED <<now, cfg, obs, touched, calls,
                       rateVars, pubVars, cacheVars, gwVars>>

\* record_success: opened_at.store(0)
SuccessStoreOpened(s, th) ==
    LET m == get_or_create(breakers, s)
    IN  /\ thr[th].pc = "s_close"
        /\ breakers' = [m EXCEPT ![s].opened_at = 0]
        /\ thr' = [Behind(thr, th) EXCEPT ![th].pc = "s_successes"]
        /\ hist' = PeriodEnds(hist)
        /\ UNCHANGED <<now, cfg, obs, touched, calls,
                       rateVars, pubVars, cacheVars, gwVars>>

\* record_success: consecutive_successes.store(0)
SuccessStoreSuccesses(s, th) ==
    LET m == get_or_create(breakers, s)
    IN  /\ thr[th].pc = "s_successes"
        /\ breakers' = [m EXCEPT ![s].consecutive_successes = 0]
        /\ thr' = [thr EXCEPT ![th].pc = "s_probes"]
        /\ UNCHANGED <<now, cfg, obs, touched, calls, hist,
                       rateVars, pubVars, cacheVars, gwVars>>

\* record_success: half_open_probes.store(0)
SuccessStoreProbes(s, th) ==
    LET m == get_or_create(breakers, s)
    IN  /\ thr[th].pc = "s_probes"
        /\ breakers' = [m EXCEPT ![s].half_open_probes = 0]
        /\ thr' = [thr EXCEPT ![th] = ThreadIdle]
        /\ hist' = RecordReturns(hist, th)
        /\ UNCHANGED <<now, cfg, obs, touched, calls,
                       rateVars, pubVars, cacheVars, gwVars>>

\* record_failure: consecutive_successes.store(0)
FailureResetSuccesses(s, th) ==
    LET m == get_or_create(breakers, s)
    IN  /\ thr[th].pc = "idle"
        /\ breakers' = [m EXCEPT ![s].consecutive_successes = 0]
        /\ thr' = [thr EXCEPT ![th].pc = "f_count"]
        /\ hist' = RecordBegins(hist, th, "failure", m[s])
        /\ UNCHANGED <<now, cfg, obs, touched, calls,
                       rateVars, pubVars, cacheVars, gwVars>>

\* record_failure: failures = consecutive_failures.fetch_add(1) + 1, and the
\* comparison with failure_threshold
FailureCount(s, th) ==
    LET m == get_or_create(breakers, s)
        failures == m[s].consecutive_failures + 1
    IN  /\ thr[th].pc = "f_count"
        /\ failures <= MaxCount
        /\ breakers' = [m EXCEPT ![s].consecutive_failures = failures]
        /\ thr' = IF failures >= cfg.failure_threshold
                  THEN [thr EXCEPT ![th].pc = "f_open"]
                  ELSE [thr EXCEPT ![th] = ThreadIdle]
        /\ hist' = IF thr'[th].pc = "idle" THEN RecordReturns(hist, th) ELSE hist
        /\ UNCHANGED <<now, cfg, obs, touched, calls,
                       rateVars, pubVars, cacheVars, gwVars>>

\* record_failure: opened_at.store(Self::now_millis()), in both arms
FailureStoreOpened(s, th) ==
    LET m == get_or_create(breakers, s)
    IN  /\ thr[th].pc = "f_open"
        /\ breakers' = [m EXCEPT ![s].opened_at = now]
        /\ thr' = [Behind(thr, th) EXCEPT ![th].pc = "f_probes"]
        /\ hist' = PeriodEnds(hist)
        /\ UNCHANGED <<now, cfg, obs, touched, calls,
                       rateVars, pubVars, cacheVars, gwVars>>

\* record_failure: half_open_probes.store(0)
FailureStoreProbes(s, th) ==
    LET m == get_or_create(breakers, s)
    IN  /\ thr[th].pc = "f_probes"
        /\ breakers' = [m EXCEPT ![s].half_open_probes = 0]
        /\ thr' = [thr EXCEPT ![th] = ThreadIdle]
        /\ hist' = RecordReturns(hist, th)
        /\ UNCHANGED <<now, cfg, obs, touched, calls,
                       rateVars, pubVars, cacheVars, gwVars>>

\* The clock advances; a group of record calls under way is no longer at
\* one clock reading
AtomicsTick ==
    /\ Tick
    /\ hist' = IF \E x \in DOMAIN thr : InRecord(thr[x])
               THEN Forget(hist) ELSE hist
    /\ UNCHANGED <<cfg, breakers, obs, touched, calls, thr,
                   rateVars, pubVars, cacheVars, gwVars>>

InitAtomics ==
    /\ now = MaxTime - 2
    /\ cfg \in [failure_threshold : FailureThresholds,
                open_duration : {1},
                half_open_successes : HalfOpenSuccesses]
    /\ breakers = <<>>
    /\ obs = [s \in Services |-> ObsNew]
    /\ touched = None
    /\ calls = CallsNone
    /\ thr = ThreadsIdle
    /\ hist = HistNew
    /\ IdleRate
    /\ IdlePub
    /\ IdleCache
    /\ IdleGw

NextAtomics ==
    \/ AtomicsTick
    \/ \E th \in DOMAIN thr : AllowState("auth", th)
    \/ \E th \in DOMAIN thr : AllowProbe("auth", th)
    \/ \E th \in DOMAIN thr : SuccessResetFailures("auth", th)
    \/ \E th \in DOMAIN thr : SuccessCount("auth", th)
    \/ \E th \in DOMAIN thr : SuccessLoadOpened("auth", th)
    \/ \E th \in DOMAIN thr : SuccessStoreOpened("auth", th)
    \/ \E th \in DOMAIN thr : SuccessStoreSuccesses("auth", th)
    \/ \E th \in DOMAIN thr : SuccessStoreProbes("auth", th)
    \/ \E th \in DOMAIN thr : FailureResetSuccesses("auth", th)
    \/ \E th \in DOMAIN thr : FailureCount("auth", th)
    \/ \E th \in DOMAIN thr : FailureStoreOpened("auth", th)
    \/ \E th \in DOMAIN thr : FailureStoreProbes("auth", th)

SpecAtomics == InitAtomics /\ [][NextAtomics]_vars

\* One record call made on its own at clock t
record_call(op, br, t) ==
    CASE op = "success" -> record_success(br)
      [] op = "failure" -> record_failure(br, t)
      [] op = "none" -> br

\* What the group's calls leave when made one after the other, in either
\* order
SequentialOutcomes(h, t) ==
    {record_call(h.ops[y], record_call(h.ops[x], h.base, t), t) :
        <<x, y>> \in {<<"t1", "t2">>, <<"t2", "t1">>}}

\* The last call of a group of two overlapping calls, one of them a
\* record_failure, returns
GroupEnds ==
    /\ hist.clean
    /\ \E x \in DOMAIN thr : hist.ops[x] = "failure"
    /\ \A x \in DOMAIN thr : hist.ops[x] # "none"
    /\ \E x \in DOMAIN thr : InRecord(thr[x])
    /\ \A x \in DOMAIN thr : ~InRecord(thr'[x])

\* C33: a record_failure overlapping with a record_success or with another
\* record_failure, all at one clock reading, leaves the breaker as the two
\* calls made one after the other, in one order or the other, would
C33_RecordsSerializable ==
    [][GroupEnds => breakers'["auth"] \in SequentialOutcomes(hist, now)]_vars

\* C36: of the calls of allow_request that read HalfOpen in one period, the
\* current one or the one before it, at most half_open_successes + 1 return
\* true
C36_ProbesPerPeriod ==
    /\ hist.cur <= cfg.half_open_successes + 1
    /\ hist.prev <= cfg.half_open_successes + 1

=============================================================================
